---------------------------- MODULE Spec2Model ----------------------------
(***************************************************************************)
(* Model of the tactilis dashboard (crates sollertia-core, sollertia-ui):  *)
(* the 4-byte frame decoder, the serial polling thread with its sync flag  *)
(* and press latches, the mutex-guarded SharedState, the broadcast channel *)
(* of PressEvents and the WebSocket client tasks that append accuracy      *)
(* records; and of the Unity WebSocket server of the core binary (unity.rs *)
(* with its caller in app.rs): the accept loop raced against the shutdown  *)
(* signal, the outgoing broadcast channel, the incoming mpsc channel and   *)
(* one handler per connection; of the serial monitor (crate serial-monitor) *)
(* and of the line reader of the core binary (arduino.rs).  The binaries   *)
(* are separate processes: a behaviour is a run of one of them, the others *)
(* not being started.                                                      *)
(*                                                                         *)
(* Option<T> is modelled as a sequence of length 0 (None) or 1 (Some).     *)
(* Result<T,E> is modelled as [ok |-> TRUE, val |-> v] / [ok |-> FALSE,    *)
(* err |-> e].  Instants are integers on the logical clock `now`.          *)
(***************************************************************************)
EXTENDS Integers, Sequences, FiniteSets, TLC

VARIABLES
    \* ---- run_serial_polling: control position and locals
    pc,                 \* "open" | "backoff" | "settle" | "handshake" | "read" | "stop"
                        \* ("off": the dashboard binary is not the one running)
    buffer,             \* [u8; 4], the last frame read
    pressure_result,    \* Option of the last Pressure::from_serial(buffer)
    is_started,
    prev_index_above,
    prev_middle_above,
    start_time,         \* Instant taken when the read loop is entered
    frames_read,        \* number of frames read so far (bounded by MaxFrames)
    \* ---- the serial port of the connection held
    port_tx,            \* the bytes written to the port since it was opened
    port_flushed,       \* how many of them a successful flush() has covered
    \* ---- serial-monitor main (its locals buffer, is_started and object are
    \*      the variables buffer, is_started and pressure_result above)
    mon_pc,             \* "open" | "settle" | "handshake" | "loop" | "read" | "stop"
                        \* | "exit" | "panic" ("off": binary not running)
    running,            \* the AtomicBool the Ctrl-C handler clears
    printed,            \* the samples printed, in order
    \* ---- arduino.rs: the reader thread of arduino::connect
    reader_pc,          \* "parse" | "read" | "exit" ("off": not connected)
    line_buf,           \* the line read last, trimmed
    parse_result,       \* Option of the last result of parse_arduino_message
    arduino_rx,         \* messages sent to ArduinoHandle::receiver, in order
    lines_read,         \* the lines read_line has returned to this thread,
                        \* trimmed, in order (at most MaxLines)
    arduino_handle,     \* TactilisApp::arduino_handle is Some: the receiver lives
    in_flight,          \* the rest of a line whose beginning a timed-out
                        \* read_line has consumed (<<>>: none)
    \* ---- SharedState (behind the Mutex)
    index_pressure,
    middle_pressure,
    accuracy_records,   \* VecDeque<AccuracyRecord>
    connected_clients,
    serial_connected,
    last_press_time,    \* Option<Instant>
    pending_press,      \* Option<PressEvent>
    \* ---- broadcast channel press_tx / press_rx
    press_tx_sent,      \* every event handed to press_tx.send, in order
    press_rx,           \* per client: events queued for its receiver
    \* ---- run_websocket_server
    accept_pc,          \* "accept" | "upgrade" ("off": binary not running)
    client,             \* per client: "idle" | "upgrading" | "connected"
    responses_handled,  \* number of responses processed (bounded by MaxResponses)
    \* ---- the WebSocket of each client (both servers)
    ws_sent,            \* per client: the messages written to the ws_sender of
                        \* its latest connection
    ws_ended,           \* per client: its ws_receiver has reported an error
    texts_ignored,      \* number of unparseable texts received (bounded by MaxUnparsed)
    last_response,      \* Option of the UnityResponse parsed last by a client task
    \* ---- unity.rs: UnityServerHandle, UnityServerState, start_server
    unity_handle,       \* TactilisApp::unity_handle is Some
    listening,          \* the accept loop task is running
    shutdown_rx,        \* number of signals queued in the shutdown channel
    unity_client,       \* per client: "idle" | "handshake" | "connected"
    outgoing_sent,      \* every message handed to UnityServerHandle::send, in order
    send_result,        \* Option of the last result of UnityServerHandle::send
    outgoing_rx,        \* per client: messages queued for its broadcast receiver
    incoming_rx,        \* messages forwarded to UnityServerHandle::receiver
    inbound_handled,    \* number of parsed inbound messages (bounded by MaxInbound)
    connected,          \* UnityServerState::connected
    client_version,     \* UnityServerState::client_version
    \* ---- the Mutex around SharedState and the sections it guards
    state_locked,       \* a MutexGuard is alive
    serial_cs,          \* where the serial thread is in its section ("out": outside)
    client_cs,          \* where a client task is in its section
    ui_cs,              \* where TactilisApp::update is in its section
    snapshot,           \* Option of the SharedState that update is drawing
    \* ---- time
    now

linkVars   == <<pc, buffer, pressure_result, is_started, prev_index_above,
                prev_middle_above, start_time, frames_read>>
sharedVars == <<index_pressure, middle_pressure, accuracy_records,
                connected_clients, serial_connected, last_press_time,
                pending_press>>
chanVars   == <<press_tx_sent, press_rx>>
relayVars  == <<accept_pc, client, responses_handled>>
wsVars     == <<ws_sent, ws_ended, texts_ignored, last_response>>
unityVars  == <<unity_handle, listening, shutdown_rx, unity_client, outgoing_sent,
                send_result, outgoing_rx, incoming_rx, inbound_handled,
                connected, client_version>>
portVars   == <<port_tx, port_flushed>>
monVars    == <<mon_pc, running, printed>>
ardVars    == <<reader_pc, line_buf, parse_result, arduino_rx, lines_read,
                arduino_handle, in_flight>>
lockVars   == <<state_locked, serial_cs, client_cs, ui_cs, snapshot>>
\* Everything but the sockets and the Unity server.
dashVars   == <<linkVars, sharedVars, chanVars, relayVars, now, portVars,
                monVars, ardVars, lockVars>>
vars       == <<linkVars, sharedVars, chanVars, relayVars, now, wsVars, unityVars,
                portVars, monVars, ardVars, lockVars>>

---------------------------------------------------------------------------
(* Bounds of the model *)
MaxFrames    == 4      \* frames read by the serial thread in one behaviour
MaxResponses == 1      \* responses processed in one behaviour
MaxTime      == 1      \* ticks of the logical clock
NumClients   == 2      \* WebSocket peers
MaxUnparsed  == 1      \* unparseable texts received in one behaviour
MaxOutgoing  == 2      \* calls of UnityServerHandle::send in one behaviour
MaxInbound   == 1      \* parsed messages received by the Unity server

(* Program constants *)
PRESSURE_THRESHOLD == 100     \* sollertia-ui main.rs:15
BROADCAST_CAPACITY == 16      \* sollertia-ui main.rs:53
HISTORY_CAPACITY   == 1000    \* sollertia-ui main.rs:414
U16_MODULUS        == 65536   \* width of Pressure::pressure (u16)
OUTGOING_CAPACITY  == 100     \* core unity.rs:94
INCOMING_CAPACITY  == 100     \* core unity.rs:95
SHUTDOWN_CAPACITY  == 1       \* core unity.rs:96
START_BYTE         == 83      \* sollertia-ui main.rs:261, serial-monitor main.rs:30
STOP_BYTE          == 115     \* sollertia-ui main.rs:330, serial-monitor main.rs:46

Clients == 1..NumClients

None == <<>>
Some(x) == <<x>>
Ok(v) == [ok |-> TRUE, val |-> v]
Err(e) == [ok |-> FALSE, err |-> e]

---------------------------------------------------------------------------
(* sollertia-core: Finger, Pressure *)

\* Mutant of from_u8: the commented-out arm `u8::MAX => Ok(StartMessage)` enabled.
from_u8_accepts_max(input) ==
    IF input = 0 THEN Ok("Index")
    ELSE IF input = 1 THEN Ok("Middle")
    ELSE IF input = 255 THEN Ok("StartMessage")
    ELSE Err(input)

from_u8(input) ==
    IF input = 0 THEN Ok("Index")
    ELSE IF input = 1 THEN Ok("Middle")
    ELSE Err(input)

\* Bitwise or of two naturals, bit by bit.
RECURSIVE BitOr(_, _)
BitOr(a, b) ==
    IF a = 0 THEN b
    ELSE IF b = 0 THEN a
    ELSE (IF (a % 2 = 1) \/ (b % 2 = 1) THEN 1 ELSE 0) + 2 * BitOr(a \div 2, b \div 2)

\* (x as u16) << 8
Shl8(x) == (x * 256) % U16_MODULUS

\* Mutant of from_serial: the magnitude is assembled little-endian.
from_serial_little_endian(input) ==
    IF input = <<1, 0, 0, 0>> THEN Ok([pressure |-> 0, finger |-> "BufferAlignment"])
    ELSE IF input = <<255, 0, 0, 255>> THEN Ok([pressure |-> 0, finger |-> "StartMessage"])
    ELSE IF input[1] # 255 THEN Err(input)
    ELSE LET f == from_u8(input[4]) IN
         IF f.ok
         THEN Ok([pressure |-> BitOr(Shl8(input[3]), input[2]), finger |-> f.val])
         ELSE Err(input)

\* Mutant of from_serial: the BufferAlignment pattern is not recognised.
from_serial_no_alignment(input) ==
    IF input = <<255, 0, 0, 255>> THEN Ok([pressure |-> 0, finger |-> "StartMessage"])
    ELSE IF input[1] # 255 THEN Err(input)
    ELSE LET f == from_u8(input[4]) IN
         IF f.ok
         THEN Ok([pressure |-> BitOr(Shl8(input[2]), input[3]), finger |-> f.val])
         ELSE Err(input)

from_serial(input) ==
    IF input = <<1, 0, 0, 0>> THEN Ok([pressure |-> 0, finger |-> "BufferAlignment"])
    ELSE IF input = <<255, 0, 0, 255>> THEN Ok([pressure |-> 0, finger |-> "StartMessage"])
    ELSE IF input[1] # 255 THEN Err(input)
    ELSE LET f == from_u8(input[4]) IN
         IF f.ok
         THEN Ok([pressure |-> BitOr(Shl8(input[2]), input[3]), finger |-> f.val])
         ELSE Err(input)

\* Mutant of is_start: only the pressure is looked at.
is_start_pressure_only(p) == p.pressure = 0

is_start(p) == p.pressure = 0 /\ p.finger = "StartMessage"

---------------------------------------------------------------------------
(* sollertia-ui: the broadcast channel and the press detector *)

\* What recv() reports in place of the values a slow receiver has missed.
LAGGED == [type |-> "lagged"]

\* The values a receiver's queue holds, the lag report aside.
Retained(q) == IF q # <<>> /\ Head(q) = LAGGED THEN Tail(q) ELSE q

\* One receiver's view of broadcast::Sender::send: the value is queued and the
\* channel retains at most BROADCAST_CAPACITY values; when the oldest is
\* overwritten the receiver's next recv() reports Lagged.
broadcast_send(q, e) ==
    LET q2 == Append(Retained(q), e) IN
    IF Len(q2) > BROADCAST_CAPACITY THEN <<LAGGED>> \o Tail(q2)
    ELSE IF q # <<>> /\ Head(q) = LAGGED THEN <<LAGGED>> \o q2
    ELSE q2

\* Mutant of Above: the comparison is not strict.
Above_or_equal(pressure) == pressure >= PRESSURE_THRESHOLD

\* let above = pressure.pressure > PRESSURE_THRESHOLD;
Above(pressure) == pressure > PRESSURE_THRESHOLD

\* if above && !prev_*_above
RisingEdge(above, prev) == above /\ ~prev

PressEvent(finger, pressure) ==
    [finger |-> finger, pressure |-> pressure, timestamp_ms |-> now - start_time]

\* Mutant of Publish: a pending press is kept when one is already waiting.
Publish_keep_pending(event) ==
    /\ last_press_time' = Some(now)
    /\ pending_press' = IF pending_press = None THEN Some(event) ELSE pending_press
    /\ press_tx_sent' = Append(press_tx_sent, event)
    /\ press_rx' = [c \in Clients |->
                      IF client[c] = "connected"
                      THEN broadcast_send(press_rx[c], event)
                      ELSE press_rx[c]]

\* Mutant of Publish: while a press is pending the new one is queued behind it,
\* the slot and the press time stay those of the waiting press.
Publish_queue_behind(event) ==
    /\ last_press_time' = IF pending_press = None THEN Some(now) ELSE last_press_time
    /\ pending_press' = IF pending_press = None THEN Some(event) ELSE pending_press
    /\ press_tx_sent' = Append(press_tx_sent, event)
    /\ press_rx' = [c \in Clients |->
                      IF client[c] = "connected"
                      THEN broadcast_send(press_rx[c], event)
                      ELSE press_rx[c]]

\* Mutant of Publish: the channel hands each event to one receiver only, the
\* connected client of lowest index.
Publish_single_consumer(event) ==
    /\ last_press_time' = Some(now)
    /\ pending_press' = Some(event)
    /\ press_tx_sent' = Append(press_tx_sent, event)
    /\ press_rx' = [c \in Clients |->
                      IF client[c] = "connected"
                         /\ \A d \in Clients : d < c => client[d] # "connected"
                      THEN broadcast_send(press_rx[c], event)
                      ELSE press_rx[c]]

\* Mutant of Publish: the send waits until every connected client has room for
\* the event (a bounded queue in place of the broadcast channel).
Publish_waits_for_room(event) ==
    /\ \A c \in Clients :
          client[c] = "connected" => Len(press_rx[c]) < BROADCAST_CAPACITY
    /\ last_press_time' = Some(now)
    /\ pending_press' = Some(event)
    /\ press_tx_sent' = Append(press_tx_sent, event)
    /\ press_rx' = [c \in Clients |->
                      IF client[c] = "connected"
                      THEN broadcast_send(press_rx[c], event)
                      ELSE press_rx[c]]

\* s.last_press_time = Some(Instant::now()); s.pending_press = Some(event.clone());
\* let _ = press_tx.send(event);
Publish(event) ==
    /\ last_press_time' = Some(now)
    /\ pending_press' = Some(event)
    /\ press_tx_sent' = Append(press_tx_sent, event)
    /\ press_rx' = [c \in Clients |->
                      IF client[c] = "connected"
                      THEN broadcast_send(press_rx[c], event)
                      ELSE press_rx[c]]

NoPublish == UNCHANGED <<last_press_time, pending_press, press_tx_sent, press_rx>>

\* Mutant of Forward: a control frame is handled like an Index sample.
Forward_control_as_index(p) ==
    IF p.finger = "Middle" THEN
        /\ middle_pressure' = p.pressure
        /\ IF RisingEdge(Above(p.pressure), prev_middle_above)
           THEN Publish(PressEvent("Middle", p.pressure))
           ELSE NoPublish
        /\ prev_middle_above' = Above(p.pressure)
        /\ UNCHANGED <<index_pressure, prev_index_above>>
    ELSE
        /\ index_pressure' = p.pressure
        /\ IF RisingEdge(Above(p.pressure), prev_index_above)
           THEN Publish(PressEvent("Index", p.pressure))
           ELSE NoPublish
        /\ prev_index_above' = Above(p.pressure)
        /\ UNCHANGED <<middle_pressure, prev_middle_above>>

\* match pressure.finger { Finger::Index => ..., Finger::Middle => ..., _ => {} }
Forward(p) ==
    IF p.finger = "Index" THEN
        /\ index_pressure' = p.pressure
        /\ IF RisingEdge(Above(p.pressure), prev_index_above)
           THEN Publish(PressEvent("Index", p.pressure))
           ELSE NoPublish
        /\ prev_index_above' = Above(p.pressure)
        /\ UNCHANGED <<middle_pressure, prev_middle_above>>
    ELSE IF p.finger = "Middle" THEN
        /\ middle_pressure' = p.pressure
        /\ IF RisingEdge(Above(p.pressure), prev_middle_above)
           THEN Publish(PressEvent("Middle", p.pressure))
           ELSE NoPublish
        /\ prev_middle_above' = Above(p.pressure)
        /\ UNCHANGED <<index_pressure, prev_index_above>>
    ELSE
        /\ NoPublish
        /\ UNCHANGED <<index_pressure, middle_pressure,
                       prev_index_above, prev_middle_above>>

\* Mutant of OnFrame: a frame that fails to decode is taken as the start of the stream.
OnFrame_error_starts(r) ==
    IF r.ok /\ is_started THEN
        /\ Forward(r.val)
        /\ UNCHANGED is_started
    ELSE
        /\ is_started' = (IF r.ok THEN is_start(r.val) ELSE TRUE)
        /\ NoPublish
        /\ UNCHANGED <<index_pressure, middle_pressure,
                       prev_index_above, prev_middle_above>>

\* Mutant of OnFrame: samples are forwarded whether or not the stream has started.
OnFrame_no_sync(r) ==
    IF r.ok THEN
        /\ Forward(r.val)
        /\ is_started' = (is_started \/ is_start(r.val))
    ELSE
        /\ NoPublish
        /\ UNCHANGED <<is_started, index_pressure, middle_pressure,
                       prev_index_above, prev_middle_above>>

\* Mutant of OnFrame: a frame that fails to decode clears both press latches.
OnFrame_error_clears_latches(r) ==
    IF r.ok THEN
        IF ~is_started THEN
            /\ is_started' = (IF is_start(r.val) THEN TRUE ELSE is_started)
            /\ NoPublish
            /\ UNCHANGED <<index_pressure, middle_pressure,
                           prev_index_above, prev_middle_above>>
        ELSE
            /\ Forward(r.val)
            /\ UNCHANGED is_started
    ELSE
        /\ NoPublish
        /\ prev_index_above' = FALSE
        /\ prev_middle_above' = FALSE
        /\ UNCHANGED <<is_started, index_pressure, middle_pressure>>

\* The body of the read loop after Pressure::from_serial(buffer).
OnFrame(r) ==
    IF r.ok THEN
        IF ~is_started THEN
            /\ is_started' = (IF is_start(r.val) THEN TRUE ELSE is_started)
            /\ NoPublish
            /\ UNCHANGED <<index_pressure, middle_pressure,
                           prev_index_above, prev_middle_above>>
        ELSE
            /\ Forward(r.val)
            /\ UNCHANGED is_started
    ELSE
        /\ NoPublish
        /\ UNCHANGED <<is_started, index_pressure, middle_pressure,
                       prev_index_above, prev_middle_above>>

---------------------------------------------------------------------------
(* run_serial_polling *)

\* The frames the device is made to send in the model.
F_ALIGN == <<1, 0, 0, 0>>
F_START == <<255, 0, 0, 255>>
LinkFrames ==
    { F_ALIGN, F_START,
      <<255, 0, 1, 255>>,                     \* sentinel, unknown channel code
      <<0, 0, 200, 0>>,                       \* no sentinel
      <<255, 0, 0, 0>>, <<255, 0, 50, 0>>,    \* Index below the threshold
      <<255, 0, 100, 0>>,                     \* Index at the threshold
      <<255, 0, 200, 0>>,                     \* Index above the threshold
      <<255, 0, 50, 1>>, <<255, 0, 200, 1>> } \* Middle below / above

SampleFrames ==
    { <<255, 0, 50, 0>>, <<255, 0, 200, 0>>, <<255, 0, 50, 1>>, <<255, 0, 200, 1>> }

\* SerialPort::open succeeds.
OpenOk ==
    /\ pc = "open"
    /\ serial_connected' = TRUE
    /\ pc' = "settle"
    /\ UNCHANGED <<buffer, pressure_result, is_started, prev_index_above,
                   prev_middle_above, start_time, frames_read>>
    /\ UNCHANGED <<index_pressure, middle_pressure, accuracy_records,
                   connected_clients, last_press_time, pending_press>>
    /\ UNCHANGED <<chanVars, relayVars, now>>
    /\ port_tx' = <<>>
    /\ port_flushed' = 0
    /\ UNCHANGED <<wsVars, unityVars, monVars, ardVars, lockVars>>

\* SerialPort::open fails: the 2 s sleep follows.
OpenFail ==
    /\ pc = "open"
    /\ serial_connected' = FALSE
    /\ pc' = "backoff"
    /\ UNCHANGED <<buffer, pressure_result, is_started, prev_index_above,
                   prev_middle_above, start_time, frames_read>>
    /\ UNCHANGED <<index_pressure, middle_pressure, accuracy_records,
                   connected_clients, last_press_time, pending_press>>
    /\ UNCHANGED <<chanVars, relayVars, now>>
    /\ UNCHANGED portVars
    /\ UNCHANGED <<wsVars, unityVars, monVars, ardVars, lockVars>>

\* The sleep after a failed open ends; `continue`.
BackoffDone ==
    /\ pc = "backoff"
    /\ pc' = "open"
    /\ UNCHANGED <<buffer, pressure_result, is_started, prev_index_above,
                   prev_middle_above, start_time, frames_read>>
    /\ UNCHANGED <<sharedVars, chanVars, relayVars, now>>
    /\ UNCHANGED portVars
    /\ UNCHANGED <<wsVars, unityVars, monVars, ardVars, lockVars>>

\* The sleep after a successful open ends.
SettleDone ==
    /\ pc = "settle"
    /\ pc' = "handshake"
    /\ UNCHANGED <<buffer, pressure_result, is_started, prev_index_above,
                   prev_middle_above, start_time, frames_read>>
    /\ UNCHANGED <<sharedVars, chanVars, relayVars, now>>
    /\ UNCHANGED portVars
    /\ UNCHANGED <<wsVars, unityVars, monVars, ardVars, lockVars>>

\* Mutant of HandshakeOk: the sync flag and the latches are declared outside
\* the reconnection loop and keep their values across connections.
HandshakeOk_keeps_locals ==
    /\ pc = "handshake"
    /\ buffer' = <<0, 0, 0, 0>>
    /\ pressure_result' = None
    /\ start_time' = now
    /\ pc' = "read"
    /\ UNCHANGED <<is_started, prev_index_above, prev_middle_above>>
    /\ UNCHANGED <<frames_read, sharedVars, chanVars, relayVars, now>>
    /\ port_tx' = <<START_BYTE>>
    /\ port_flushed' = 1
    /\ UNCHANGED <<wsVars, unityVars, monVars, ardVars, lockVars>>

\* write_all(&[83]) and flush() succeed: the locals of the read loop are set up.
HandshakeOk ==
    /\ pc = "handshake"
    /\ buffer' = <<0, 0, 0, 0>>
    /\ pressure_result' = None
    /\ is_started' = FALSE
    /\ prev_index_above' = FALSE
    /\ prev_middle_above' = FALSE
    /\ start_time' = now
    /\ pc' = "read"
    /\ UNCHANGED <<frames_read, sharedVars, chanVars, relayVars, now>>
    /\ port_tx' = <<START_BYTE>>
    /\ port_flushed' = 1
    /\ UNCHANGED <<wsVars, unityVars, monVars, ardVars, lockVars>>

\* write_all(&[83]) or flush() fails; `continue`.
HandshakeFail ==
    /\ pc = "handshake"
    /\ serial_connected' = FALSE
    /\ pc' = "open"
    /\ UNCHANGED <<buffer, pressure_result, is_started, prev_index_above,
                   prev_middle_above, start_time, frames_read>>
    /\ UNCHANGED <<index_pressure, middle_pressure, accuracy_records,
                   connected_clients, last_press_time, pending_press>>
    /\ UNCHANGED <<chanVars, relayVars, now>>
    /\ \/ UNCHANGED portVars                        \* write_all failed
       \/ /\ port_tx' = <<START_BYTE>>             \* flush failed
          /\ port_flushed' = 0
    /\ UNCHANGED <<wsVars, unityVars, monVars, ardVars, lockVars>>

\* read_exact fills the buffer with one of `frames`; the frame is decoded and handled.
ReadFrom(frames) ==
    /\ pc = "read"
    /\ frames_read < MaxFrames
    /\ \E f \in frames :
          /\ buffer' = f
          /\ pressure_result' = Some(from_serial(f))
          /\ OnFrame(from_serial(f))
    /\ frames_read' = frames_read + 1
    /\ UNCHANGED <<pc, start_time, accuracy_records, connected_clients,
                   serial_connected, relayVars, now>>
    /\ UNCHANGED portVars
    /\ UNCHANGED <<wsVars, unityVars, monVars, ardVars, lockVars>>

\* The device sends any frame of LinkFrames.
ReadFrame == ReadFrom(LinkFrames)

\* The device sends sensor data only.
ReadSample == ReadFrom(SampleFrames)

\* read_exact fails; `break`.
ReadError ==
    /\ pc = "read"
    /\ serial_connected' = FALSE
    /\ pc' = "stop"
    /\ UNCHANGED <<buffer, pressure_result, is_started, prev_index_above,
                   prev_middle_above, start_time, frames_read>>
    /\ UNCHANGED <<index_pressure, middle_pressure, accuracy_records,
                   connected_clients, last_press_time, pending_press>>
    /\ UNCHANGED <<chanVars, relayVars, now>>
    /\ UNCHANGED portVars
    /\ UNCHANGED <<wsVars, unityVars, monVars, ardVars, lockVars>>

\* Mutant of StopHandshake: after the stop byte the thread returns instead of
\* restarting the outer loop.
StopHandshake_exits ==
    /\ pc = "stop"
    /\ pc' = "exit"
    /\ UNCHANGED <<buffer, pressure_result, is_started, prev_index_above,
                   prev_middle_above, start_time, frames_read>>
    /\ UNCHANGED <<sharedVars, chanVars, relayVars, now>>
    /\ \/ UNCHANGED portVars                        \* write_all failed
       \/ /\ port_tx' = Append(port_tx, STOP_BYTE)
          /\ port_flushed' \in {port_flushed, Len(port_tx) + 1}
    /\ UNCHANGED <<wsVars, unityVars, monVars, ardVars, lockVars>>

\* let _ = port.write_all(&[115]); let _ = port.flush(); then the outer loop restarts.
StopHandshake ==
    /\ pc = "stop"
    /\ pc' = "open"
    /\ UNCHANGED <<buffer, pressure_result, is_started, prev_index_above,
                   prev_middle_above, start_time, frames_read>>
    /\ UNCHANGED <<sharedVars, chanVars, relayVars, now>>
    /\ \/ UNCHANGED portVars                        \* write_all failed
       \/ /\ port_tx' = Append(port_tx, STOP_BYTE)
          /\ port_flushed' \in {port_flushed, Len(port_tx) + 1}
    /\ UNCHANGED <<wsVars, unityVars, monVars, ardVars, lockVars>>

---------------------------------------------------------------------------
(* run_websocket_server: the accept loop and one task per client *)

Positions == { <<0, 0, 0>>, <<3, 4, 0>> }

\* What a peer may send as a text message: a UnityResponse in JSON, or text
\* that serde_json::from_str::<UnityResponse> rejects.
Responses ==
    [finger_position : Positions, target_position : { <<0, 0, 0>> },
     timestamp_ms : {0, 120}]

\* Integer square root (f32::sqrt on the perfect squares the model uses).
ISqrt(n) == CHOOSE r \in 0..n : r * r <= n /\ (r + 1) * (r + 1) > n

calculate_distance(pos1, pos2) ==
    LET dx == pos1[1] - pos2[1]
        dy == pos1[2] - pos2[2]
        dz == pos1[3] - pos2[3]
    IN  ISqrt(dx * dx + dy * dy + dz * dz)

\* Mutant of push_record: the newest record is the one dropped when full.
push_record_drop_newest(records, rec) ==
    LET r2 == Append(records, rec) IN
    IF Len(r2) > HISTORY_CAPACITY THEN SubSeq(r2, 1, Len(r2) - 1) ELSE r2

\* s.accuracy_records.push_back(..); if s.accuracy_records.len() > 1000 { pop_front(); }
push_record(records, rec) ==
    LET r2 == Append(records, rec) IN
    IF Len(r2) > HISTORY_CAPACITY THEN Tail(r2) ELSE r2

\* listener.accept() returns a connection; accept_async(stream) is awaited next.
Accept(c) ==
    /\ accept_pc = "accept"
    /\ client[c] = "idle"
    /\ accept_pc' = "upgrade"
    /\ client' = [client EXCEPT ![c] = "upgrading"]
    /\ ws_sent' = [ws_sent EXCEPT ![c] = <<>>]
    /\ UNCHANGED <<linkVars, portVars, monVars, ardVars, lockVars>>
    /\ UNCHANGED <<sharedVars, chanVars, responses_handled, now>>
    /\ UNCHANGED <<ws_ended, texts_ignored, last_response, unityVars>>

\* accept_async succeeds: the counter is incremented, the receiver subscribed,
\* the client task spawned.
UpgradeOk(c) ==
    /\ accept_pc = "upgrade"
    /\ client[c] = "upgrading"
    /\ connected_clients' = connected_clients + 1
    /\ press_rx' = [press_rx EXCEPT ![c] = <<>>]
    /\ client' = [client EXCEPT ![c] = "connected"]
    /\ accept_pc' = "accept"
    /\ ws_ended' = [ws_ended EXCEPT ![c] = FALSE]
    /\ UNCHANGED <<linkVars, portVars, monVars, ardVars, lockVars>>
    /\ UNCHANGED <<index_pressure, middle_pressure, accuracy_records,
                   serial_connected, last_press_time, pending_press,
                   press_tx_sent, responses_handled, now>>
    /\ UNCHANGED <<ws_sent, texts_ignored, last_response, unityVars>>

\* Mutant of UpgradeFail: the failed connection is counted as a client.
UpgradeFail_counts(c) ==
    /\ accept_pc = "upgrade"
    /\ client[c] = "upgrading"
    /\ client' = [client EXCEPT ![c] = "idle"]
    /\ accept_pc' = "accept"
    /\ connected_clients' = connected_clients + 1
    /\ UNCHANGED <<linkVars, portVars, monVars, ardVars, lockVars>>
    /\ UNCHANGED <<index_pressure, middle_pressure, accuracy_records,
                   serial_connected, last_press_time, pending_press,
                   chanVars, responses_handled, now>>
    /\ UNCHANGED <<wsVars, unityVars>>

\* accept_async fails; `continue`.
UpgradeFail(c) ==
    /\ accept_pc = "upgrade"
    /\ client[c] = "upgrading"
    /\ client' = [client EXCEPT ![c] = "idle"]
    /\ accept_pc' = "accept"
    /\ UNCHANGED <<linkVars, portVars, monVars, ardVars, lockVars>>
    /\ UNCHANGED <<sharedVars, chanVars, responses_handled, now>>
    /\ UNCHANGED <<wsVars, unityVars>>

\* Mutant of Disconnect: the task ends without decrementing the counter.
Disconnect_keeps_count(c) ==
    /\ UNCHANGED connected_clients
    /\ client' = [client EXCEPT ![c] = "idle"]
    /\ press_rx' = [press_rx EXCEPT ![c] = <<>>]
    /\ ws_ended' = [ws_ended EXCEPT ![c] = FALSE]
    /\ UNCHANGED ws_sent

\* After `break`: the counter is decremented and the task ends (its receiver
\* and its socket are dropped).
Disconnect(c) ==
    /\ connected_clients' = (IF connected_clients > 0 THEN connected_clients - 1 ELSE 0)
    /\ client' = [client EXCEPT ![c] = "idle"]
    /\ press_rx' = [press_rx EXCEPT ![c] = <<>>]
    /\ ws_ended' = [ws_ended EXCEPT ![c] = FALSE]
    /\ UNCHANGED ws_sent

\* Mutant of ClientRecvEvent: the newest queued event is the one taken.
ClientRecvEvent_newest_first(c) ==
    /\ client[c] = "connected"
    /\ press_rx[c] # <<>>
    /\ Head(press_rx[c]) # LAGGED
    /\ press_rx' = [press_rx EXCEPT ![c] = SubSeq(press_rx[c], 1, Len(press_rx[c]) - 1)]
    /\ ws_sent' = [ws_sent EXCEPT ![c] = Append(ws_sent[c], press_rx[c][Len(press_rx[c])])]
    /\ UNCHANGED <<linkVars, portVars, monVars, ardVars, lockVars>>
    /\ UNCHANGED <<sharedVars, press_tx_sent, relayVars, now>>
    /\ UNCHANGED <<ws_ended, texts_ignored, last_response, unityVars>>

\* press_rx.recv() yields an event and ws_sender.send succeeds.
ClientRecvEvent(c) ==
    /\ client[c] = "connected"
    /\ press_rx[c] # <<>>
    /\ Head(press_rx[c]) # LAGGED
    /\ press_rx' = [press_rx EXCEPT ![c] = Tail(press_rx[c])]
    /\ ws_sent' = [ws_sent EXCEPT ![c] = Append(ws_sent[c], Head(press_rx[c]))]
    /\ UNCHANGED <<linkVars, portVars, monVars, ardVars, lockVars>>
    /\ UNCHANGED <<sharedVars, press_tx_sent, relayVars, now>>
    /\ UNCHANGED <<ws_ended, texts_ignored, last_response, unityVars>>

\* press_rx.recv() yields an event and ws_sender.send fails; `break`.
ClientSendFail(c) ==
    /\ client[c] = "connected"
    /\ press_rx[c] # <<>>
    /\ Head(press_rx[c]) # LAGGED
    /\ Disconnect(c)
    /\ UNCHANGED <<linkVars, portVars, monVars, ardVars, lockVars>>
    /\ UNCHANGED <<index_pressure, middle_pressure, accuracy_records,
                   serial_connected, last_press_time, pending_press,
                   press_tx_sent, accept_pc, responses_handled, now>>
    /\ UNCHANGED <<texts_ignored, last_response, unityVars>>

\* Mutant of ClientLagged: the lag error ends the client task.
ClientLagged_disconnects(c) ==
    /\ client[c] = "connected"
    /\ press_rx[c] # <<>>
    /\ Head(press_rx[c]) = LAGGED
    /\ Disconnect(c)
    /\ UNCHANGED <<linkVars, portVars, monVars, ardVars, lockVars>>
    /\ UNCHANGED <<index_pressure, middle_pressure, accuracy_records,
                   serial_connected, last_press_time, pending_press,
                   press_tx_sent, accept_pc, responses_handled, now>>
    /\ UNCHANGED <<texts_ignored, last_response, unityVars>>

\* press_rx.recv() yields Err(Lagged): `if let Ok(event)` does not match,
\* nothing is sent and the select! loop goes round; the receiver now stands
\* at the oldest value retained.
ClientLagged(c) ==
    /\ client[c] = "connected"
    /\ press_rx[c] # <<>>
    /\ Head(press_rx[c]) = LAGGED
    /\ press_rx' = [press_rx EXCEPT ![c] = Tail(press_rx[c])]
    /\ UNCHANGED <<linkVars, portVars, monVars, ardVars, lockVars>>
    /\ UNCHANGED <<sharedVars, press_tx_sent, relayVars, now>>
    /\ UNCHANGED <<wsVars, unityVars>>

\* x as u64, for a difference that would be negative: truncated at 0.
Max0(x) == IF x < 0 THEN 0 ELSE x

\* Mutant of AccuracyRecord: the reaction time is taken from the timestamps the
\* two messages carry.
AccuracyRecord_from_timestamps(response) ==
    [finger           |-> IF pending_press = None THEN "Index"
                          ELSE pending_press[1].finger,
     distance         |-> calculate_distance(response.finger_position,
                                             response.target_position),
     timestamp        |-> now,
     reaction_time_ms |-> IF pending_press = None THEN 0
                          ELSE Max0(response.timestamp_ms
                                    - pending_press[1].timestamp_ms)]

\* Mutant of AccuracyRecord: the channel is that of the first press published.
AccuracyRecord_first_press(response) ==
    [finger           |-> IF press_tx_sent = <<>> THEN "Index"
                          ELSE press_tx_sent[1].finger,
     distance         |-> calculate_distance(response.finger_position,
                                             response.target_position),
     timestamp        |-> now,
     reaction_time_ms |-> IF last_press_time = None THEN 0
                          ELSE now - last_press_time[1]]

\* The record built from a parsed UnityResponse under the lock.
AccuracyRecord(response) ==
    [finger           |-> IF pending_press = None THEN "Index"
                          ELSE pending_press[1].finger,
     distance         |-> calculate_distance(response.finger_position,
                                             response.target_position),
     timestamp        |-> now,
     reaction_time_ms |-> IF last_press_time = None THEN 0
                          ELSE now - last_press_time[1]]

\* Mutant of ClientResponse: the pending press is left in its slot.
ClientResponse_keeps_pending(c) ==
    /\ client[c] = "connected"
    /\ ~ws_ended[c]
    /\ responses_handled < MaxResponses
    /\ \E response \in Responses :
          /\ last_response' = Some(response)
          /\ accuracy_records' = push_record(accuracy_records, AccuracyRecord(response))
    /\ responses_handled' = responses_handled + 1
    /\ UNCHANGED <<linkVars, portVars, monVars, ardVars, lockVars>>
    /\ UNCHANGED <<index_pressure, middle_pressure, connected_clients,
                   serial_connected, last_press_time, pending_press, chanVars,
                   accept_pc, client, now>>
    /\ UNCHANGED <<ws_sent, ws_ended, texts_ignored, unityVars>>

\* ws_receiver.next() yields Text that parses as a UnityResponse (the stream
\* yields no message once it has reported an error).
ClientResponse(c) ==
    /\ client[c] = "connected"
    /\ ~ws_ended[c]
    /\ responses_handled < MaxResponses
    /\ \E response \in Responses :
          /\ last_response' = Some(response)
          /\ accuracy_records' = push_record(accuracy_records, AccuracyRecord(response))
    /\ pending_press' = None
    /\ responses_handled' = responses_handled + 1
    /\ UNCHANGED <<linkVars, portVars, monVars, ardVars, lockVars>>
    /\ UNCHANGED <<index_pressure, middle_pressure, connected_clients,
                   serial_connected, last_press_time, chanVars, accept_pc,
                   client, now>>
    /\ UNCHANGED <<ws_sent, ws_ended, texts_ignored, unityVars>>

\* Mutant of ClientUnparsed: the text that does not parse ends the connection.
ClientUnparsed_closes(c) ==
    /\ client[c] = "connected"
    /\ ~ws_ended[c]
    /\ texts_ignored < MaxUnparsed
    /\ texts_ignored' = texts_ignored + 1
    /\ Disconnect(c)
    /\ UNCHANGED <<linkVars, portVars, monVars, ardVars, lockVars>>
    /\ UNCHANGED <<index_pressure, middle_pressure, accuracy_records,
                   serial_connected, last_press_time, pending_press,
                   press_tx_sent, accept_pc, responses_handled, now>>
    /\ UNCHANGED <<last_response, unityVars>>

\* ws_receiver.next() yields Text that serde_json::from_str rejects: the `if let
\* Ok(response)` fails and the loop goes on.
ClientUnparsed(c) ==
    /\ client[c] = "connected"
    /\ ~ws_ended[c]
    /\ texts_ignored < MaxUnparsed
    /\ texts_ignored' = texts_ignored + 1
    /\ UNCHANGED <<dashVars, ws_sent, ws_ended, last_response, unityVars>>

\* ws_receiver.next() yields Some(Err(_)): the `_ => {}` arm, the loop goes on.
\* The stream is then fused: the only thing it yields afterwards is None.
ClientRecvError(c) ==
    /\ client[c] = "connected"
    /\ ~ws_ended[c]
    /\ ws_ended' = [ws_ended EXCEPT ![c] = TRUE]
    /\ UNCHANGED <<dashVars, ws_sent, texts_ignored, last_response, unityVars>>

\* ws_receiver.next() yields Close or the stream ends; `break`.
ClientClose(c) ==
    /\ client[c] = "connected"
    /\ Disconnect(c)
    /\ UNCHANGED <<linkVars, portVars, monVars, ardVars, lockVars>>
    /\ UNCHANGED <<index_pressure, middle_pressure, accuracy_records,
                   serial_connected, last_press_time, pending_press,
                   press_tx_sent, accept_pc, responses_handled, now>>
    /\ UNCHANGED <<texts_ignored, last_response, unityVars>>

\* Time passes.
Tick ==
    /\ now < MaxTime
    /\ now' = now + 1
    /\ UNCHANGED <<linkVars, portVars, monVars, ardVars, lockVars>>
    /\ UNCHANGED <<sharedVars, chanVars, relayVars>>
    /\ UNCHANGED <<wsVars, unityVars>>

---------------------------------------------------------------------------
(* unity.rs: the Unity WebSocket server of the core binary, and the calls  *)
(* app.rs makes on its handle                                              *)

\* The n-th CoreToUnityMessage the application sends.
CoreMessage(n) == [type |-> "sensor_state", n |-> n]

\* What a Unity client may send as text that parses as a UnityToCoreMessage.
UnityMessages ==
    { [type |-> "ready", client_version |-> "1.0"], [type |-> "target_hit"] }

\* One receiver's view of broadcast::Sender::send on the outgoing channel: at
\* most OUTGOING_CAPACITY values are retained; when the oldest is overwritten
\* the receiver's next recv() reports Lagged.
outgoing_push(q, m) ==
    LET q2 == Append(Retained(q), m) IN
    IF Len(q2) > OUTGOING_CAPACITY THEN <<LAGGED>> \o Tail(q2)
    ELSE IF q # <<>> /\ Head(q) = LAGGED THEN <<LAGGED>> \o q2
    ELSE q2

\* The receivers of the outgoing channel: one per handler, from accept on.
Subscribers == { u \in Clients : unity_client[u] # "idle" }

\* listener.accept() returns a connection: a receiver is subscribed and
\* handle_connection spawned (the WebSocket handshake happens in the handler).
UnityAccept(u) ==
    /\ listening
    /\ unity_client[u] = "idle"
    /\ unity_client' = [unity_client EXCEPT ![u] = "handshake"]
    /\ outgoing_rx' = [outgoing_rx EXCEPT ![u] = <<>>]
    /\ ws_sent' = [ws_sent EXCEPT ![u] = <<>>]
    /\ UNCHANGED <<unity_handle, listening, shutdown_rx, outgoing_sent,
                   send_result, incoming_rx, inbound_handled, connected,
                   client_version>>
    /\ UNCHANGED <<dashVars, ws_ended, texts_ignored, last_response>>

\* UnityServerHandle::shutdown: one signal is queued for the accept loop (the
\* send waits while the channel is full and is a no-op once the loop is gone).
UnityShutdown ==
    /\ unity_handle
    /\ listening
    /\ shutdown_rx < SHUTDOWN_CAPACITY
    /\ shutdown_rx' = shutdown_rx + 1
    /\ UNCHANGED <<unity_handle, listening, unity_client, outgoing_sent,
                   send_result, outgoing_rx, incoming_rx, inbound_handled,
                   connected, client_version>>
    /\ UNCHANGED <<dashVars, wsVars>>

\* Mutant of UnityAcceptLoopExit: leaving the loop ends every handler.
UnityAcceptLoopExit_severs ==
    /\ listening
    /\ shutdown_rx > 0
    /\ listening' = FALSE
    /\ shutdown_rx' = 0
    /\ unity_client' = [u \in Clients |-> "idle"]
    /\ outgoing_rx' = [u \in Clients |-> <<>>]
    /\ connected' = FALSE
    /\ client_version' = None
    /\ UNCHANGED <<unity_handle, outgoing_sent, send_result, incoming_rx,
                   inbound_handled>>
    /\ UNCHANGED <<dashVars, wsVars>>

\* The shutdown_rx.recv() branch of the accept loop wins: `break`.
UnityAcceptLoopExit ==
    /\ listening
    /\ shutdown_rx > 0
    /\ listening' = FALSE
    /\ shutdown_rx' = 0
    /\ UNCHANGED <<unity_handle, unity_client, outgoing_sent, send_result,
                   outgoing_rx, incoming_rx, inbound_handled, connected,
                   client_version>>
    /\ UNCHANGED <<dashVars, wsVars>>

\* accept_async succeeds in the handler: state.connected = true.
UnityHandshakeOk(u) ==
    /\ unity_client[u] = "handshake"
    /\ unity_client' = [unity_client EXCEPT ![u] = "connected"]
    /\ connected' = TRUE
    /\ UNCHANGED <<unity_handle, listening, shutdown_rx, outgoing_sent,
                   send_result, outgoing_rx, incoming_rx, inbound_handled,
                   client_version>>
    /\ UNCHANGED <<dashVars, wsVars>>

\* accept_async fails in the handler: `return` (the receiver is dropped).
UnityHandshakeFail(u) ==
    /\ unity_client[u] = "handshake"
    /\ unity_client' = [unity_client EXCEPT ![u] = "idle"]
    /\ outgoing_rx' = [outgoing_rx EXCEPT ![u] = <<>>]
    /\ UNCHANGED <<unity_handle, listening, shutdown_rx, outgoing_sent,
                   send_result, incoming_rx, inbound_handled, connected,
                   client_version>>
    /\ UNCHANGED <<dashVars, wsVars>>

\* Mutant of send_outcome: a send that reaches no receiver is reported as Ok.
send_outcome_always_ok(receivers) == Ok("unit")

\* self.sender.send(msg).map_err(|_| UnityError::NotConnected)?; Ok(())
send_outcome(receivers) ==
    IF receivers = {} THEN Err("NotConnected") ELSE Ok("unit")

\* UnityServerHandle::send, as called by TactilisApp::send_to_unity.
UnitySend ==
    /\ unity_handle
    /\ Len(outgoing_sent) < MaxOutgoing
    /\ LET msg == CoreMessage(Len(outgoing_sent) + 1) IN
          /\ outgoing_sent' = Append(outgoing_sent, msg)
          /\ outgoing_rx' = [u \in Clients |->
                               IF u \in Subscribers
                               THEN outgoing_push(outgoing_rx[u], msg)
                               ELSE outgoing_rx[u]]
    /\ send_result' = Some(send_outcome(Subscribers))
    /\ UNCHANGED <<unity_handle, listening, shutdown_rx, unity_client,
                   incoming_rx, inbound_handled, connected, client_version>>
    /\ UNCHANGED <<dashVars, wsVars>>

\* After the select! of handle_connection: state.connected = false and
\* state.client_version = None; the handler ends, its receiver and socket
\* are dropped.
UnityDisconnect(u) ==
    /\ connected' = FALSE
    /\ client_version' = None
    /\ unity_client' = [unity_client EXCEPT ![u] = "idle"]
    /\ outgoing_rx' = [outgoing_rx EXCEPT ![u] = <<>>]
    /\ UNCHANGED ws_sent

\* send_task: outgoing_rx.recv() yields a message and ws_sender.send succeeds.
UnityForward(u) ==
    /\ unity_client[u] = "connected"
    /\ outgoing_rx[u] # <<>>
    /\ Head(outgoing_rx[u]) # LAGGED
    /\ ws_sent' = [ws_sent EXCEPT ![u] = Append(ws_sent[u], Head(outgoing_rx[u]))]
    /\ outgoing_rx' = [outgoing_rx EXCEPT ![u] = Tail(outgoing_rx[u])]
    /\ UNCHANGED <<unity_handle, listening, shutdown_rx, unity_client,
                   outgoing_sent, send_result, incoming_rx, inbound_handled,
                   connected, client_version>>
    /\ UNCHANGED <<dashVars, ws_ended, texts_ignored, last_response>>

\* send_task: ws_sender.send fails; `break`, the select! completes.
UnityForwardFail(u) ==
    /\ unity_client[u] = "connected"
    /\ outgoing_rx[u] # <<>>
    /\ Head(outgoing_rx[u]) # LAGGED
    /\ UnityDisconnect(u)
    /\ UNCHANGED <<unity_handle, listening, shutdown_rx, outgoing_sent,
                   send_result, incoming_rx, inbound_handled>>
    /\ UNCHANGED <<dashVars, ws_ended, texts_ignored, last_response>>

\* Mutant of UnityLagged: the lag report is skipped and the loop goes on.
UnityLagged_skips(u) ==
    /\ unity_client[u] = "connected"
    /\ outgoing_rx[u] # <<>>
    /\ Head(outgoing_rx[u]) = LAGGED
    /\ outgoing_rx' = [outgoing_rx EXCEPT ![u] = Tail(outgoing_rx[u])]
    /\ UNCHANGED <<unity_handle, listening, shutdown_rx, unity_client,
                   outgoing_sent, send_result, incoming_rx, inbound_handled,
                   connected, client_version>>
    /\ UNCHANGED <<dashVars, wsVars>>

\* send_task: outgoing_rx.recv() reports Lagged; the `while let Ok` loop ends
\* and the select! completes.
UnityLagged(u) ==
    /\ unity_client[u] = "connected"
    /\ outgoing_rx[u] # <<>>
    /\ Head(outgoing_rx[u]) = LAGGED
    /\ UnityDisconnect(u)
    /\ UNCHANGED <<unity_handle, listening, shutdown_rx, outgoing_sent,
                   send_result, incoming_rx, inbound_handled>>
    /\ UNCHANGED <<dashVars, ws_ended, texts_ignored, last_response>>

\* recv_task: Text that parses as a UnityToCoreMessage; a Ready message sets
\* state.client_version; the message is forwarded on incoming_tx (the send
\* waits while the channel is full).
UnityRecv(u) ==
    /\ unity_client[u] = "connected"
    /\ inbound_handled < MaxInbound
    /\ Len(incoming_rx) < INCOMING_CAPACITY
    /\ \E msg \in UnityMessages :
          /\ client_version' = IF msg.type = "ready"
                               THEN Some(msg.client_version)
                               ELSE client_version
          /\ incoming_rx' = Append(incoming_rx, msg)
    /\ inbound_handled' = inbound_handled + 1
    /\ UNCHANGED <<unity_handle, listening, shutdown_rx, unity_client,
                   outgoing_sent, send_result, outgoing_rx, connected>>
    /\ UNCHANGED <<dashVars, wsVars>>

\* recv_task: Text that serde_json::from_str rejects; a warning is logged.
UnityUnparsed(u) ==
    /\ unity_client[u] = "connected"
    /\ texts_ignored < MaxUnparsed
    /\ texts_ignored' = texts_ignored + 1
    /\ UNCHANGED <<dashVars, ws_sent, ws_ended, last_response, unityVars>>

\* recv_task: a Close frame, a WebSocket error or the end of the stream;
\* the loop ends and the select! completes.
UnityRecvEnd(u) ==
    /\ unity_client[u] = "connected"
    /\ UnityDisconnect(u)
    /\ UNCHANGED <<unity_handle, listening, shutdown_rx, outgoing_sent,
                   send_result, incoming_rx, inbound_handled>>
    /\ UNCHANGED <<dashVars, ws_ended, texts_ignored, last_response>>

\* TactilisApp::process_unity_messages: every forwarded message is taken with
\* try_recv.
UnityDrain ==
    /\ unity_handle
    /\ incoming_rx # <<>>
    /\ incoming_rx' = <<>>
    /\ UNCHANGED <<unity_handle, listening, shutdown_rx, unity_client,
                   outgoing_sent, send_result, outgoing_rx, inbound_handled,
                   connected, client_version>>
    /\ UNCHANGED <<dashVars, wsVars>>

---------------------------------------------------------------------------
(* sollertia-ui: the sections guarded by the Mutex around SharedState,     *)
(* statement by statement.  The actions above take each section as one     *)
(* step; here a section is entered by state.lock(), its assignments are    *)
(* separate steps, and it is left when the guard is dropped.               *)

\* The SharedState as a reader holding the lock sees it.
Shared ==
    [index_pressure    |-> index_pressure,
     middle_pressure   |-> middle_pressure,
     accuracy_records  |-> accuracy_records,
     connected_clients |-> connected_clients,
     serial_connected  |-> serial_connected,
     last_press_time   |-> last_press_time,
     pending_press     |-> pending_press]

\* What no step of a section touches.
SectionFrame ==
    UNCHANGED <<pc, is_started, start_time, connected_clients, serial_connected,
                relayVars, now, ws_sent, ws_ended, texts_ignored, unityVars,
                portVars, monVars, ardVars>>

\* The sample the serial thread holds in its section, and the latch of its
\* channel.
Sample == pressure_result[1].val
SampleLatch == IF Sample.finger = "Index" THEN prev_index_above ELSE prev_middle_above

\* read_exact returns a sample while Streaming; `if let Ok(mut s) = state.lock()`
\* returns the guard.
SerialEnter ==
    /\ pc = "read"
    /\ is_started
    /\ frames_read < MaxFrames
    /\ serial_cs = "out"
    /\ ~state_locked
    /\ \E f \in SampleFrames :
          /\ buffer' = f
          /\ pressure_result' = Some(from_serial(f))
    /\ frames_read' = frames_read + 1
    /\ state_locked' = TRUE
    /\ serial_cs' = "pressure"
    /\ UNCHANGED <<prev_index_above, prev_middle_above, index_pressure,
                   middle_pressure, accuracy_records, last_press_time,
                   pending_press, chanVars, last_response, client_cs, ui_cs,
                   snapshot>>
    /\ SectionFrame

\* s.index_pressure = pressure.pressure (s.middle_pressure for Middle);
\* let above = ...; if above && !prev_*_above
SerialStorePressure ==
    /\ serial_cs = "pressure"
    /\ IF Sample.finger = "Index"
       THEN index_pressure' = Sample.pressure /\ UNCHANGED middle_pressure
       ELSE middle_pressure' = Sample.pressure /\ UNCHANGED index_pressure
    /\ serial_cs' = (IF RisingEdge(Above(Sample.pressure), SampleLatch)
                     THEN "press_time" ELSE "latch")
    /\ UNCHANGED <<buffer, pressure_result, frames_read, prev_index_above,
                   prev_middle_above, accuracy_records, last_press_time,
                   pending_press, chanVars, last_response, state_locked,
                   client_cs, ui_cs, snapshot>>
    /\ SectionFrame

\* s.last_press_time = Some(Instant::now());
SerialStorePressTime ==
    /\ serial_cs = "press_time"
    /\ last_press_time' = Some(now)
    /\ serial_cs' = "pending"
    /\ UNCHANGED <<buffer, pressure_result, frames_read, prev_index_above,
                   prev_middle_above, index_pressure, middle_pressure,
                   accuracy_records, pending_press, chanVars, last_response,
                   state_locked, client_cs, ui_cs, snapshot>>
    /\ SectionFrame

\* s.pending_press = Some(event.clone());
SerialStorePending ==
    /\ serial_cs = "pending"
    /\ pending_press' = Some(PressEvent(Sample.finger, Sample.pressure))
    /\ serial_cs' = "send"
    /\ UNCHANGED <<buffer, pressure_result, frames_read, prev_index_above,
                   prev_middle_above, index_pressure, middle_pressure,
                   accuracy_records, last_press_time, chanVars, last_response,
                   state_locked, client_cs, ui_cs, snapshot>>
    /\ SectionFrame

\* let _ = press_tx.send(event);
SerialSend ==
    /\ serial_cs = "send"
    /\ press_tx_sent' = Append(press_tx_sent, pending_press[1])
    /\ press_rx' = [c \in Clients |->
                      IF client[c] = "connected"
                      THEN broadcast_send(press_rx[c], pending_press[1])
                      ELSE press_rx[c]]
    /\ serial_cs' = "latch"
    /\ UNCHANGED <<buffer, pressure_result, frames_read, prev_index_above,
                   prev_middle_above, index_pressure, middle_pressure,
                   accuracy_records, last_press_time, pending_press,
                   last_response, state_locked, client_cs, ui_cs, snapshot>>
    /\ SectionFrame

\* prev_*_above = above; the guard is dropped at the end of the `if let`.
SerialLeave ==
    /\ serial_cs = "latch"
    /\ IF Sample.finger = "Index"
       THEN prev_index_above' = Above(Sample.pressure) /\ UNCHANGED prev_middle_above
       ELSE prev_middle_above' = Above(Sample.pressure) /\ UNCHANGED prev_index_above
    /\ state_locked' = FALSE
    /\ serial_cs' = "out"
    /\ UNCHANGED <<buffer, pressure_result, frames_read, index_pressure,
                   middle_pressure, accuracy_records, last_press_time,
                   pending_press, chanVars, last_response, client_cs, ui_cs,
                   snapshot>>
    /\ SectionFrame

\* Mutant of ClientEnter: the task writes the state without taking the lock.
ClientEnter_without_lock(c) ==
    /\ client[c] = "connected"
    /\ ~ws_ended[c]
    /\ responses_handled < MaxResponses
    /\ client_cs = "out"
    /\ \E response \in Responses : last_response' = Some(response)
    /\ client_cs' = "push"
    /\ UNCHANGED <<buffer, pressure_result, frames_read, prev_index_above,
                   prev_middle_above, index_pressure, middle_pressure,
                   accuracy_records, last_press_time, pending_press, chanVars,
                   state_locked, serial_cs, ui_cs, snapshot>>
    /\ SectionFrame

\* A Text parses as a UnityResponse; `if let Ok(mut s) = client_state.lock()`
\* returns the guard.
ClientEnter(c) ==
    /\ client[c] = "connected"
    /\ ~ws_ended[c]
    /\ responses_handled < MaxResponses
    /\ client_cs = "out"
    /\ ~state_locked
    /\ \E response \in Responses : last_response' = Some(response)
    /\ state_locked' = TRUE
    /\ client_cs' = "push"
    /\ UNCHANGED <<buffer, pressure_result, frames_read, prev_index_above,
                   prev_middle_above, index_pressure, middle_pressure,
                   accuracy_records, last_press_time, pending_press, chanVars,
                   serial_cs, ui_cs, snapshot>>
    /\ SectionFrame

\* s.accuracy_records.push_back(AccuracyRecord { .. });
\* if s.accuracy_records.len() > 1000
ClientPush ==
    /\ client_cs = "push"
    /\ accuracy_records' = Append(accuracy_records, AccuracyRecord(last_response[1]))
    /\ client_cs' = (IF Len(accuracy_records) + 1 > HISTORY_CAPACITY
                     THEN "evict" ELSE "clear")
    /\ UNCHANGED <<buffer, pressure_result, frames_read, prev_index_above,
                   prev_middle_above, index_pressure, middle_pressure,
                   last_press_time, pending_press, chanVars, last_response,
                   state_locked, serial_cs, ui_cs, snapshot>>
    /\ SectionFrame

\* s.accuracy_records.pop_front();
ClientEvict ==
    /\ client_cs = "evict"
    /\ accuracy_records' = Tail(accuracy_records)
    /\ client_cs' = "clear"
    /\ UNCHANGED <<buffer, pressure_result, frames_read, prev_index_above,
                   prev_middle_above, index_pressure, middle_pressure,
                   last_press_time, pending_press, chanVars, last_response,
                   state_locked, serial_cs, ui_cs, snapshot>>
    /\ SectionFrame

\* s.pending_press = None;
ClientClear ==
    /\ client_cs = "clear"
    /\ pending_press' = None
    /\ client_cs' = "leave"
    /\ UNCHANGED <<buffer, pressure_result, frames_read, prev_index_above,
                   prev_middle_above, index_pressure, middle_pressure,
                   accuracy_records, last_press_time, chanVars, last_response,
                   state_locked, serial_cs, ui_cs, snapshot>>
    /\ SectionFrame

\* The guard is dropped at the end of the `if let`.
ClientLeave ==
    /\ client_cs = "leave"
    /\ state_locked' = FALSE
    /\ client_cs' = "out"
    /\ responses_handled' = responses_handled + 1
    /\ UNCHANGED <<pc, is_started, start_time, connected_clients, serial_connected,
                   accept_pc, client, now, ws_sent, ws_ended, texts_ignored,
                   unityVars, portVars, monVars, ardVars>>
    /\ UNCHANGED <<buffer, pressure_result, frames_read, prev_index_above,
                   prev_middle_above, index_pressure, middle_pressure,
                   accuracy_records, last_press_time, pending_press, chanVars,
                   last_response, serial_cs, ui_cs, snapshot>>

\* TactilisApp::update: let state = self.state.lock().unwrap();
UiEnter ==
    /\ pc # "off"
    /\ ui_cs = "out"
    /\ ~state_locked
    /\ state_locked' = TRUE
    /\ ui_cs' = "read"
    /\ UNCHANGED <<buffer, pressure_result, frames_read, prev_index_above,
                   prev_middle_above, index_pressure, middle_pressure,
                   accuracy_records, last_press_time, pending_press, chanVars,
                   last_response, serial_cs, client_cs, snapshot>>
    /\ SectionFrame

\* The panels are drawn from the fields of the guarded state.
UiRead ==
    /\ ui_cs = "read"
    /\ snapshot' = Some(Shared)
    /\ ui_cs' = "drawn"
    /\ UNCHANGED <<buffer, pressure_result, frames_read, prev_index_above,
                   prev_middle_above, index_pressure, middle_pressure,
                   accuracy_records, last_press_time, pending_press, chanVars,
                   last_response, state_locked, serial_cs, client_cs>>
    /\ SectionFrame

\* drop(state); ctx.request_repaint_after(50 ms)
UiLeave ==
    /\ ui_cs = "drawn"
    /\ state_locked' = FALSE
    /\ ui_cs' = "out"
    /\ snapshot' = None
    /\ UNCHANGED <<buffer, pressure_result, frames_read, prev_index_above,
                   prev_middle_above, index_pressure, middle_pressure,
                   accuracy_records, last_press_time, pending_press, chanVars,
                   last_response, serial_cs, client_cs>>
    /\ SectionFrame

---------------------------------------------------------------------------
(* serial-monitor: main *)

\* The frames the device sends to the monitor.
MonitorFrames ==
    { F_ALIGN, F_START, <<0, 0, 200, 0>>, <<255, 0, 200, 0>>, <<255, 0, 50, 1>> }

\* What every step of the monitor leaves alone.
MonitorFrame ==
    UNCHANGED <<pc, prev_index_above, prev_middle_above, start_time,
                sharedVars, chanVars, relayVars, now, wsVars, unityVars, ardVars,
                lockVars>>

\* The Ctrl-C handler: r.store(false).
CtrlC ==
    /\ mon_pc \notin {"off", "exit", "panic"}
    /\ running
    /\ running' = FALSE
    /\ UNCHANGED <<mon_pc, printed, buffer, pressure_result, is_started,
                   frames_read, portVars>>
    /\ MonitorFrame

\* SerialPort::open(..).unwrap() returns the port.
MonOpenOk ==
    /\ mon_pc = "open"
    /\ mon_pc' = "settle"
    /\ port_tx' = <<>>
    /\ port_flushed' = 0
    /\ UNCHANGED <<running, printed, buffer, pressure_result, is_started,
                   frames_read>>
    /\ MonitorFrame

\* SerialPort::open(..).unwrap() panics.
MonOpenFail ==
    /\ mon_pc = "open"
    /\ mon_pc' = "panic"
    /\ UNCHANGED <<running, printed, buffer, pressure_result, is_started,
                   frames_read, portVars>>
    /\ MonitorFrame

\* thread::sleep(2 s) ends.
MonSettleDone ==
    /\ mon_pc = "settle"
    /\ mon_pc' = "handshake"
    /\ UNCHANGED <<running, printed, buffer, pressure_result, is_started,
                   frames_read, portVars>>
    /\ MonitorFrame

\* Mutant of MonHandshakeOk: the start byte is written twice.
MonHandshakeOk_twice ==
    /\ mon_pc = "handshake"
    /\ port_tx' = <<START_BYTE, START_BYTE>>
    /\ port_flushed' = 2
    /\ mon_pc' = "loop"
    /\ UNCHANGED <<running, printed, buffer, pressure_result, is_started,
                   frames_read>>
    /\ MonitorFrame

\* write_all(&[83]).unwrap() and flush().unwrap() return.
MonHandshakeOk ==
    /\ mon_pc = "handshake"
    /\ port_tx' = <<START_BYTE>>
    /\ port_flushed' = 1
    /\ mon_pc' = "loop"
    /\ UNCHANGED <<running, printed, buffer, pressure_result, is_started,
                   frames_read>>
    /\ MonitorFrame

\* write_all(&[83]).unwrap() or flush().unwrap() panics.
MonHandshakeFail ==
    /\ mon_pc = "handshake"
    /\ mon_pc' = "panic"
    /\ \/ UNCHANGED portVars                        \* write_all failed
       \/ /\ port_tx' = <<START_BYTE>>             \* flush failed
          /\ port_flushed' = 0
    /\ UNCHANGED <<running, printed, buffer, pressure_result, is_started,
                   frames_read>>
    /\ MonitorFrame

\* while running.load(SeqCst): the loop goes on to its read or is left.
MonLoopTest ==
    /\ mon_pc = "loop"
    /\ mon_pc' = (IF running THEN "read" ELSE "stop")
    /\ UNCHANGED <<running, printed, buffer, pressure_result, is_started,
                   frames_read, portVars>>
    /\ MonitorFrame

\* read_exact(&mut buffer).unwrap() returns a frame: it is decoded, printed if
\* the stream has started, and starts the stream if it is the StartMessage.
MonRead ==
    /\ mon_pc = "read"
    /\ frames_read < MaxFrames
    /\ \E f \in MonitorFrames :
          LET object == from_serial(f) IN
          /\ buffer' = f
          /\ pressure_result' = Some(object)
          /\ printed' = (IF object.ok /\ is_started
                         THEN Append(printed, object.val) ELSE printed)
          /\ is_started' = (IF object.ok /\ ~is_started /\ is_start(object.val)
                            THEN TRUE ELSE is_started)
    /\ frames_read' = frames_read + 1
    /\ mon_pc' = "loop"
    /\ UNCHANGED <<running, portVars>>
    /\ MonitorFrame

\* read_exact(&mut buffer).unwrap() panics.
MonReadError ==
    /\ mon_pc = "read"
    /\ mon_pc' = "panic"
    /\ UNCHANGED <<running, printed, buffer, pressure_result, is_started,
                   frames_read, portVars>>
    /\ MonitorFrame

\* write_all(&[115]).unwrap() and flush().unwrap() return; main returns.
MonStopOk ==
    /\ mon_pc = "stop"
    /\ port_tx' = Append(port_tx, STOP_BYTE)
    /\ port_flushed' = Len(port_tx) + 1
    /\ mon_pc' = "exit"
    /\ UNCHANGED <<running, printed, buffer, pressure_result, is_started,
                   frames_read>>
    /\ MonitorFrame

\* write_all(&[115]).unwrap() or flush().unwrap() panics.
MonStopFail ==
    /\ mon_pc = "stop"
    /\ mon_pc' = "panic"
    /\ \/ UNCHANGED portVars                        \* write_all failed
       \/ /\ port_tx' = Append(port_tx, STOP_BYTE) \* flush failed
          /\ UNCHANGED port_flushed
    /\ UNCHANGED <<running, printed, buffer, pressure_result, is_started,
                   frames_read>>
    /\ MonitorFrame

---------------------------------------------------------------------------
(* The whole dashboard *)

\* run_serial_polling about to make its first open attempt.
InitLink ==
    /\ pc = "open"
    /\ buffer = <<0, 0, 0, 0>>
    /\ pressure_result = None
    /\ is_started = FALSE
    /\ prev_index_above = FALSE
    /\ prev_middle_above = FALSE
    /\ start_time = 0
    /\ frames_read = 0

\* SharedState::default()
InitShared ==
    /\ index_pressure = 0
    /\ middle_pressure = 0
    /\ accuracy_records = <<>>
    /\ connected_clients = 0
    /\ serial_connected = FALSE
    /\ last_press_time = None
    /\ pending_press = None

\* broadcast::channel(16) with no receiver; the listener bound, no peer yet.
InitRelay ==
    /\ press_tx_sent = <<>>
    /\ press_rx = [c \in Clients |-> <<>>]
    /\ accept_pc = "accept"
    /\ client = [c \in Clients |-> "idle"]
    /\ responses_handled = 0

\* No socket yet.
InitSockets ==
    /\ ws_sent = [c \in Clients |-> <<>>]
    /\ ws_ended = [c \in Clients |-> FALSE]
    /\ texts_ignored = 0
    /\ last_response = None

\* The core binary is not running: no UnityServerHandle, no accept loop.
InitUnityOff ==
    /\ unity_handle = FALSE
    /\ listening = FALSE
    /\ shutdown_rx = 0
    /\ unity_client = [c \in Clients |-> "idle"]
    /\ outgoing_sent = <<>>
    /\ send_result = None
    /\ outgoing_rx = [c \in Clients |-> <<>>]
    /\ incoming_rx = <<>>
    /\ inbound_handled = 0
    /\ connected = FALSE
    /\ client_version = None

\* No port is open.
InitPortClosed ==
    /\ port_tx = <<>>
    /\ port_flushed = 0

\* The port is open and the start byte was written and flushed.
InitPortStreaming ==
    /\ port_tx = <<START_BYTE>>
    /\ port_flushed = 1

\* The serial monitor is not running.
InitMonitorOff ==
    /\ mon_pc = "off"
    /\ running = TRUE
    /\ printed = <<>>

\* Nobody holds the Mutex.
InitUnlocked ==
    /\ state_locked = FALSE
    /\ serial_cs = "out"
    /\ client_cs = "out"
    /\ ui_cs = "out"
    /\ snapshot = None

\* arduino::connect was not called: no reader thread.
InitReaderOff ==
    /\ reader_pc = "off"
    /\ line_buf = <<>>
    /\ parse_result = None
    /\ arduino_rx = <<>>
    /\ lines_read = <<>>
    /\ arduino_handle = FALSE
    /\ in_flight = <<>>

Init ==
    /\ InitLink /\ InitShared /\ InitRelay /\ now = 0 /\ InitSockets /\ InitUnityOff
    /\ InitPortClosed /\ InitMonitorOff /\ InitReaderOff /\ InitUnlocked

\* The dashboard binary is not running: no serial thread, no relay.
InitDashOff ==
    /\ pc = "off"
    /\ buffer = <<0, 0, 0, 0>>
    /\ pressure_result = None
    /\ is_started = FALSE
    /\ prev_index_above = FALSE
    /\ prev_middle_above = FALSE
    /\ start_time = 0
    /\ frames_read = 0
    /\ InitShared
    /\ press_tx_sent = <<>>
    /\ press_rx = [c \in Clients |-> <<>>]
    /\ accept_pc = "off"
    /\ client = [c \in Clients |-> "idle"]
    /\ responses_handled = 0
    /\ now = 0

\* start_server has returned Ok: the listener is bound, the accept loop
\* spawned, the channels created, UnityServerState::default().
InitUnityOn ==
    /\ unity_handle = TRUE
    /\ listening = TRUE
    /\ shutdown_rx = 0
    /\ unity_client = [c \in Clients |-> "idle"]
    /\ outgoing_sent = <<>>
    /\ send_result = None
    /\ outgoing_rx = [c \in Clients |-> <<>>]
    /\ incoming_rx = <<>>
    /\ inbound_handled = 0
    /\ connected = FALSE
    /\ client_version = None

\* The core binary with its Unity server started.
InitCore ==
    /\ InitDashOff /\ InitSockets /\ InitUnityOn
    /\ InitPortClosed /\ InitMonitorOff /\ InitReaderOff /\ InitUnlocked

\* The serial monitor with its Ctrl-C handler set, about to open the port.
InitMonitor ==
    /\ InitDashOff /\ InitSockets /\ InitUnityOff
    /\ InitPortClosed /\ InitReaderOff /\ InitUnlocked
    /\ mon_pc = "open"
    /\ running = TRUE
    /\ printed = <<>>

---------------------------------------------------------------------------
\* core/src/arduino.rs: the line parser of the reader thread.
\*
\* A line is the sequence of its characters, each a one-character string, so
\* that starts_with, split, strip_prefix and the integer parsers are computed
\* character by character.  A u16 is an integer.  A u64 does not fit the
\* integers of the model checker: it is its canonical decimal numeral (no
\* sign, no leading zero), and the range check compares numerals.  An f32
\* quotient is the exact fraction [num, den]; rounding is left out.

\* The decimal digits, in order: the digit d is DIGITS[d + 1].
DIGITS == <<"0", "1", "2", "3", "4", "5", "6", "7", "8", "9">>

IsDigit(c) == \E i \in 1..Len(DIGITS) : DIGITS[i] = c

DigitValue(c) == (CHOOSE i \in 1..Len(DIGITS) : DIGITS[i] = c) - 1

\* u16::MAX.
U16_MAX == 65535

\* u64::MAX = 18446744073709551615, as a numeral.
U64_MAX_NUMERAL == <<"1", "8", "4", "4", "6", "7", "4", "4", "0", "7", "3", "7", "0", "9", "5", "5", "1", "6", "1", "5">>

\* The divisor of the normalisation: the top of the 10-bit ADC range.
ADC_MAX == 1023

\* str::starts_with.
starts_with(line, prefix) ==
    /\ Len(line) >= Len(prefix)
    /\ SubSeq(line, 1, Len(prefix)) = prefix

\* str::strip_prefix: Some(rest) or None.
strip_prefix(line, prefix) ==
    IF starts_with(line, prefix)
    THEN Some(SubSeq(line, Len(prefix) + 1, Len(line)))
    ELSE None

\* Option::unwrap_or.
unwrap_or(opt, default) == IF opt # None THEN opt[1] ELSE default

\* str::split(sep).collect(): the pieces between the separators, empty pieces
\* included; a line with n separators has n + 1 pieces.
RECURSIVE split(_, _)
split(line, sep) ==
    IF \A i \in 1..Len(line) : line[i] # sep
    THEN <<line>>
    ELSE LET i == CHOOSE k \in 1..Len(line) :
                      /\ line[k] = sep
                      /\ \A j \in 1..(k - 1) : line[j] # sep
         IN  <<SubSeq(line, 1, i - 1)>>
                 \o split(SubSeq(line, i + 1, Len(line)), sep)

\* The digits an unsigned parse reads: one leading '+' is dropped, a '-' is
\* not (the type is unsigned), so it stays and is an invalid digit.
UnsignedDigits(s) ==
    IF Len(s) > 1 /\ s[1] = "+" THEN Tail(s) ELSE s

\* An unsigned parse finds digits and nothing else (not empty, not a lone
\* sign).
IsUnsignedNumeral(s) ==
    /\ UnsignedDigits(s) # <<>>
    /\ \A i \in 1..Len(UnsignedDigits(s)) : IsDigit(UnsignedDigits(s)[i])

\* The numeral without its leading zeros; zero is "0".
RECURSIVE Canonical(_)
Canonical(ds) ==
    IF Len(ds) > 1 /\ ds[1] = "0" THEN Canonical(Tail(ds)) ELSE ds

\* The value of a numeral short enough for the integers of the model.
RECURSIVE NumeralValue(_)
NumeralValue(ds) ==
    IF ds = <<>> THEN 0
    ELSE 10 * NumeralValue(SubSeq(ds, 1, Len(ds) - 1))
             + DigitValue(ds[Len(ds)])

\* a <= b for two canonical numerals.
RECURSIVE NumeralLeq(_, _)
NumeralLeq(a, b) ==
    IF Len(a) # Len(b) THEN Len(a) < Len(b)
    ELSE IF a = <<>> THEN TRUE
    ELSE IF a[1] # b[1] THEN DigitValue(a[1]) < DigitValue(b[1])
    ELSE NumeralLeq(Tail(a), Tail(b))

\* str::parse::<u16>(): Ok(value), or Err for an empty field, an invalid
\* digit or a value above u16::MAX.
parse_u16(s) ==
    IF ~IsUnsignedNumeral(s) THEN Err("ParseIntError")
    ELSE LET ds == Canonical(UnsignedDigits(s))
         IN  IF Len(ds) <= 5 /\ NumeralValue(ds) <= U16_MAX
             THEN Ok(NumeralValue(ds))
             ELSE Err("ParseIntError")

\* str::parse::<u64>(): Ok(numeral), or Err for an empty field, an invalid
\* digit or a value above u64::MAX.
parse_u64(s) ==
    IF ~IsUnsignedNumeral(s) THEN Err("ParseIntError")
    ELSE LET ds == Canonical(UnsignedDigits(s))
         IN  IF NumeralLeq(ds, U64_MAX_NUMERAL)
             THEN Ok(ds)
             ELSE Err("ParseIntError")

\* The one JSON line of the inputs that serde_json accepts as an
\* ArduinoMessage, and the message it denotes.
JSON_ERROR_LINE == <<"{", "\"", "t", "y", "p", "e", "\"", ":", "\"", "e", "r", "r", "o", "r", "\"", ",", "\"", "m", "e", "s", "s", "a", "g", "e", "\"", ":", "\"", "x", "\"", "}">>

\* serde_json::from_str::<ArduinoMessage> on the JSON lines of the inputs:
\* the tagged object above is a message, every other text (an object without
\* a "type" tag, a cut-off object) is a serde error.
from_str(line) ==
    IF line = JSON_ERROR_LINE
    THEN Ok([type |-> "error", message |-> <<"x">>])
    ELSE Err("Json")

\* The first character of a JSON object.
OPEN_BRACE == <<"{">>

\* The version reported when "READY" is not followed by a space.
UNKNOWN_VERSION == <<"u", "n", "k", "n", "o", "w", "n">>

READY == <<"R", "E", "A", "D", "Y">>

READY_SPACE == <<"R", "E", "A", "D", "Y", " ">>

\* A parser that takes the raw value for the timestamp.
parse_arduino_message_swapped(line) ==
    IF starts_with(line, OPEN_BRACE) THEN from_str(line)
    ELSE LET parts == split(line, ",")
         IN  IF Len(parts) = 3
             THEN IF parts[1] \notin {<<"I">>, <<"M">>}
                  THEN Err("Unknown finger")
                  ELSE IF ~parse_u16(parts[2]).ok
                  THEN Err("Invalid pressure value")
                  ELSE IF ~parse_u64(parts[3]).ok
                  THEN Err("Invalid timestamp")
                  ELSE Ok([type |-> "sensor",
                           finger |-> IF parts[1] = <<"I">>
                                      THEN "index" ELSE "middle",
                           pressure |-> [num |-> parse_u16(parts[2]).val,
                                         den |-> ADC_MAX],
                           timestamp_ms |-> parse_u64(parts[2]).val])
             ELSE IF starts_with(line, READY)
             THEN Ok([type |-> "ready",
                      firmware_version |->
                          unwrap_or(strip_prefix(line, READY_SPACE),
                                    UNKNOWN_VERSION)])
             ELSE Err("Unknown format")

\* parse_arduino_message: a line that starts with '{' is JSON; a line of
\* three comma-separated pieces is a sensor reading or an error; a line that
\* starts with "READY" is a ready message; anything else is an error.
parse_arduino_message(line) ==
    IF starts_with(line, OPEN_BRACE) THEN from_str(line)
    ELSE LET parts == split(line, ",")
         IN  IF Len(parts) = 3
             THEN IF parts[1] \notin {<<"I">>, <<"M">>}
                  THEN Err("Unknown finger")
                  ELSE IF ~parse_u16(parts[2]).ok
                  THEN Err("Invalid pressure value")
                  ELSE IF ~parse_u64(parts[3]).ok
                  THEN Err("Invalid timestamp")
                  ELSE Ok([type |-> "sensor",
                           finger |-> IF parts[1] = <<"I">>
                                      THEN "index" ELSE "middle",
                           pressure |-> [num |-> parse_u16(parts[2]).val,
                                         den |-> ADC_MAX],
                           timestamp_ms |-> parse_u64(parts[3]).val])
             ELSE IF starts_with(line, READY)
             THEN Ok([type |-> "ready",
                      firmware_version |->
                          unwrap_or(strip_prefix(line, READY_SPACE),
                                    UNKNOWN_VERSION)])
             ELSE Err("Unknown format")

\* The first fields of the comma-separated inputs.
ChannelFields ==
    { <<"I">>,   \* index
      <<"M">>,   \* middle
      <<"X">>,   \* no channel
      <<"i">>,   \* lower case
      <<"I", "M">>,   \* two letters
      <<>>,   \* empty
      <<"R", "E", "A", "D", "Y">>   \* a word
    }

\* The second fields: in the ADC range, above it, above u16::MAX, signed,
\* not numeric, empty.
RawFields ==
    { <<"0">>,
      <<"5", "1", "2">>,
      <<"1", "0", "2", "3">>,
      <<"2", "0", "0", "0">>,   \* above the ADC range
      <<"6", "5", "5", "3", "5">>,   \* u16::MAX
      <<"6", "5", "5", "3", "6">>,   \* u16::MAX + 1
      <<"0", "5", "1", "2">>,   \* leading zero
      <<"+", "5", "1", "2">>,   \* leading plus
      <<"-", "1">>,   \* negative
      <<"a", "b", "c">>,
      <<"5", " ">>,   \* trailing space
      <<>>
    }

\* The third fields: up to u64::MAX, above it, not numeric, empty.
TimestampFields ==
    { <<"1", "0", "0", "0">>,
      <<"0">>,
      <<"0", "0", "7">>,   \* leading zeros
      <<"1", "8", "4", "4", "6", "7", "4", "4", "0", "7", "3", "7", "0", "9", "5", "5", "1", "6", "1", "5">>,   \* u64::MAX
      <<"1", "8", "4", "4", "6", "7", "4", "4", "0", "7", "3", "7", "0", "9", "5", "5", "1", "6", "1", "6">>,   \* u64::MAX + 1
      <<"1", "e", "3">>,
      <<"x", "y", "z">>,
      <<>>
    }

\* The texts after "READY ": with no comma, one comma, two commas, three.
VersionFields ==
    { <<"v", "1", ".", "0", ".", "0">>,
      <<"2">>,
      <<>>,
      <<"v", "1", ",", "0">>,
      <<"v", "1", ",", "0", ",", "0">>,   \* two commas
      <<"1", ",", "2", ",", "3">>,   \* two commas
      <<",", ",">>,   \* two commas
      <<"a", ",", "b", ",", "c", ",", "d">>,
      <<"{", "x", "}">>
    }

\* Lines of no format, lines close to one, and JSON lines.
OtherLines ==
    { <<>>,
      <<"h", "e", "l", "l", "o">>,
      <<"I", ",", "5", "1", "2">>,   \* two pieces
      <<"I", ",", "5", "1", "2", ",", "1", "0", "0", "0", ",", "7">>,   \* four pieces
      <<"R", "E", "A", "D", "Y">>,   \* no space, no version
      <<"R", "E", "A", "D", "Y", "v", "1">>,   \* no space
      <<"r", "e", "a", "d", "y", " ", "v", "1">>,   \* lower case
      <<" ", "R", "E", "A", "D", "Y", " ", "v", "1">>,   \* leading space
      <<"{", "}">>,   \* no type tag
      <<"{", "\"", "t", "y", "p", "e", "\"", ":", "\"", "e", "r", "r", "o", "r", "\"", ",", "\"", "m", "e", "s", "s", "a", "g", "e", "\"", ":", "\"", "x", "\"", "}">>,
      <<"{", "\"", "t", "y", "p", "e", "\"", ":">>,   \* cut off
      <<"{", ",", "1", ",", "2">>
    }

\* field1 "," field2 "," field3.
Csv(a, b, c) == a \o <<",">> \o b \o <<",">> \o c

\* The lines the parser is applied to.
ParseLines ==
    { Csv(a, b, c) : a \in ChannelFields, b \in RawFields,
                     c \in TimestampFields }
        \cup { READY_SPACE \o v : v \in VersionFields }
        \cup OtherLines

\* parse_arduino_message is about to be applied to one line (the reader
\* thread passes trimmed lines, the tests any text).
InitParse ==
    /\ InitDashOff /\ InitSockets /\ InitUnityOff
    /\ InitPortClosed /\ InitMonitorOff /\ InitUnlocked
    /\ reader_pc = "parse"
    /\ line_buf \in ParseLines
    /\ parse_result = None
    /\ arduino_rx = <<>>
    /\ lines_read = <<line_buf>>
    /\ arduino_handle = TRUE
    /\ in_flight = <<>>

\* Mutant of ParseLine: a line that does not parse ends the thread.
ParseLine_error_exits ==
    /\ reader_pc = "parse"
    /\ parse_result' = Some(parse_arduino_message(line_buf))
    /\ IF parse_arduino_message(line_buf).ok /\ arduino_handle
       THEN /\ arduino_rx' = Append(arduino_rx,
                                    parse_arduino_message(line_buf).val)
            /\ reader_pc' = "read"
       ELSE /\ arduino_rx' = arduino_rx
            /\ reader_pc' = "exit"
    /\ UNCHANGED <<line_buf, lines_read, arduino_handle, in_flight>>
    /\ UNCHANGED <<linkVars, sharedVars, chanVars, relayVars, now, wsVars>>
    /\ UNCHANGED <<unityVars, portVars, monVars, lockVars>>

\* The reader thread parses the line: a message is sent on the channel
\* (`break` when the receiver was dropped), an error is logged and the line
\* dropped.
ParseLine ==
    /\ reader_pc = "parse"
    /\ parse_result' = Some(parse_arduino_message(line_buf))
    /\ IF parse_arduino_message(line_buf).ok
       THEN IF arduino_handle
            THEN /\ arduino_rx' = Append(arduino_rx,
                                         parse_arduino_message(line_buf).val)
                 /\ reader_pc' = "read"
            ELSE /\ arduino_rx' = arduino_rx
                 /\ reader_pc' = "exit"
       ELSE /\ arduino_rx' = arduino_rx
            /\ reader_pc' = "read"
    /\ UNCHANGED <<line_buf, lines_read, arduino_handle, in_flight>>
    /\ UNCHANGED <<linkVars, sharedVars, chanVars, relayVars, now, wsVars>>
    /\ UNCHANGED <<unityVars, portVars, monVars, lockVars>>

NextParse == ParseLine

SpecParse == InitParse /\ [][NextParse]_vars

---------------------------------------------------------------------------
\* core/src/arduino.rs, core/src/app.rs: arduino::connect, its reader thread
\* and the handle TactilisApp keeps.

(* Bounds of the reader *)
MaxLines == 3      \* lines read_line returns to one reader thread
MaxCut   == 1      \* characters of a line a timed-out read_line may consume

\* str::trim takes these off both ends.
WHITESPACE == {" ", "\t", "\n", "\r"}

RECURSIVE trim_start(_)
trim_start(s) ==
    IF s # <<>> /\ s[1] \in WHITESPACE THEN trim_start(Tail(s)) ELSE s

RECURSIVE trim_end(_)
trim_end(s) ==
    IF s # <<>> /\ s[Len(s)] \in WHITESPACE
    THEN trim_end(SubSeq(s, 1, Len(s) - 1))
    ELSE s

trim(s) == trim_end(trim_start(s))

\* The lines the device sends, terminator included.
DeviceLines ==
    { <<"I", ",", "5", "1", "2", ",", "1", "0", "0", "0", "\r", "\n">>,   \* a reading, CR LF
      <<"M", ",", "2", "0", "0", ",", "1", "0", "0", "1", "\n">>,   \* a reading
      <<"X", ",", "1", ",", "2", "\n">>,   \* unknown channel
      <<" ", " ", "\r", "\n">>,   \* blank
      <<"R", "E", "A", "D", "Y", " ", "v", "1", "\n">>   \* ready
    }

\* What the next read_line finds on the port: the rest of a line that was cut,
\* or a line of the device.
Pending == IF in_flight # <<>> THEN {in_flight} ELSE DeviceLines

Min(a, b) == IF a < b THEN a ELSE b

\* TactilisApp::connect_arduino, arduino::connect returns Ok: the port is
\* open (the open is exclusive, so no earlier reader thread still holds it),
\* a new channel is made, the thread is spawned and the handle stored.
ConnectArduinoOk ==
    /\ ~arduino_handle
    /\ reader_pc \in {"off", "exit"}
    /\ reader_pc' = "read"
    /\ line_buf' = <<>>
    /\ parse_result' = None
    /\ arduino_rx' = <<>>
    /\ lines_read' = <<>>
    /\ arduino_handle' = TRUE
    /\ in_flight' = <<>>
    /\ UNCHANGED <<linkVars, sharedVars, chanVars, relayVars, now, wsVars>>
    /\ UNCHANGED <<unityVars, portVars, monVars, lockVars>>

\* TactilisApp::connect_arduino, arduino::connect returns Err: the failure is
\* logged and nothing else changes.
ConnectArduinoFail ==
    /\ ~arduino_handle
    /\ UNCHANGED vars

\* TactilisApp::disconnect_arduino: the handle is dropped, and with it the
\* receiver; the thread is detached, not stopped.
DisconnectArduino ==
    /\ arduino_handle
    /\ arduino_handle' = FALSE
    /\ UNCHANGED <<reader_pc, line_buf, parse_result, arduino_rx, lines_read,
                   in_flight>>
    /\ UNCHANGED <<linkVars, sharedVars, chanVars, relayVars, now, wsVars>>
    /\ UNCHANGED <<unityVars, portVars, monVars, lockVars>>

\* line_buf.clear(); read_line returns Ok(n), n > 0; the line is trimmed and
\* an empty one skipped (`continue`).
ReaderReadLine ==
    /\ reader_pc = "read"
    /\ Len(lines_read) < MaxLines
    /\ \E raw \in Pending :
          /\ line_buf' = trim(raw)
          /\ lines_read' = Append(lines_read, trim(raw))
          /\ reader_pc' = IF trim(raw) = <<>> THEN "read" ELSE "parse"
    /\ in_flight' = <<>>
    /\ UNCHANGED <<parse_result, arduino_rx, arduino_handle>>
    /\ UNCHANGED <<linkVars, sharedVars, chanVars, relayVars, now, wsVars>>
    /\ UNCHANGED <<unityVars, portVars, monVars, lockVars>>

\* line_buf.clear(); read_line returns Err(TimedOut) after the 100 ms of the
\* port; `continue`.  What read_line had consumed of a line by then is in
\* line_buf and is cleared by the next turn of the loop; the rest of that
\* line is what the next read_line finds.  A line is cut at most once, within
\* its first MaxCut characters.
ReaderTimeout ==
    /\ reader_pc = "read"
    /\ line_buf' = <<>>
    /\ \/ in_flight' = in_flight                       \* nothing had arrived
       \/ /\ in_flight = <<>>                          \* a line is cut once
          /\ \E raw \in DeviceLines :
                \E k \in 1..Min(MaxCut, Len(raw) - 1) :
                   in_flight' = SubSeq(raw, k + 1, Len(raw))
    /\ UNCHANGED <<reader_pc, parse_result, arduino_rx, lines_read,
                   arduino_handle>>
    /\ UNCHANGED <<linkVars, sharedVars, chanVars, relayVars, now, wsVars>>
    /\ UNCHANGED <<unityVars, portVars, monVars, lockVars>>

\* read_line returns Ok(0), the end of the stream: `break`; the thread ends
\* and drops the port.
ReaderEof ==
    /\ reader_pc = "read"
    /\ reader_pc' = "exit"
    /\ line_buf' = <<>>
    /\ in_flight' = <<>>
    /\ UNCHANGED <<parse_result, arduino_rx, lines_read, arduino_handle>>
    /\ UNCHANGED <<linkVars, sharedVars, chanVars, relayVars, now, wsVars>>
    /\ UNCHANGED <<unityVars, portVars, monVars, lockVars>>

\* read_line returns an error that is not TimedOut: it is logged; `break`.
ReaderReadError ==
    /\ reader_pc = "read"
    /\ reader_pc' = "exit"
    /\ line_buf' = <<>>
    /\ in_flight' = <<>>
    /\ UNCHANGED <<parse_result, arduino_rx, lines_read, arduino_handle>>
    /\ UNCHANGED <<linkVars, sharedVars, chanVars, relayVars, now, wsVars>>
    /\ UNCHANGED <<unityVars, portVars, monVars, lockVars>>

\* The steps of the reader thread that end in a delivery: a line arrives and
\* is read, the line read is parsed.
ReaderStep == ReaderReadLine \/ ParseLine

NextReader ==
    \/ ConnectArduinoOk \/ ConnectArduinoFail \/ DisconnectArduino
    \/ ReaderReadLine \/ ParseLine \/ ReaderTimeout
    \/ ReaderEof \/ ReaderReadError

SpecReader == InitCore /\ [][NextReader]_vars

\* The thread is scheduled and the device keeps sending; the clicks on
\* Connect and Disconnect are the user's and are not forced.
FairReader == WF_vars(ReaderStep)

SpecReaderFair == InitCore /\ [][NextReader]_vars /\ FairReader

Next ==
    \/ OpenOk \/ OpenFail \/ BackoffDone \/ SettleDone
    \/ HandshakeOk \/ HandshakeFail
    \/ ReadFrame \/ ReadError \/ StopHandshake
    \/ \E c \in Clients : Accept(c)
    \/ \E c \in Clients : UpgradeOk(c)
    \/ \E c \in Clients : UpgradeFail(c)
    \/ \E c \in Clients : ClientRecvEvent(c)
    \/ \E c \in Clients : ClientSendFail(c)
    \/ \E c \in Clients : ClientLagged(c)
    \/ \E c \in Clients : ClientResponse(c)
    \/ \E c \in Clients : ClientUnparsed(c)
    \/ \E c \in Clients : ClientRecvError(c)
    \/ \E c \in Clients : ClientClose(c)
    \/ Tick
    \/ \E u \in Clients : UnityAccept(u)
    \/ UnityShutdown \/ UnityAcceptLoopExit
    \/ \E u \in Clients : UnityHandshakeOk(u)
    \/ \E u \in Clients : UnityHandshakeFail(u)
    \/ UnitySend
    \/ \E u \in Clients : UnityForward(u)
    \/ \E u \in Clients : UnityForwardFail(u)
    \/ \E u \in Clients : UnityLagged(u)
    \/ \E u \in Clients : UnityRecv(u)
    \/ \E u \in Clients : UnityUnparsed(u)
    \/ \E u \in Clients : UnityRecvEnd(u)
    \/ UnityDrain
    \/ CtrlC \/ MonOpenOk \/ MonOpenFail \/ MonSettleDone
    \/ MonHandshakeOk \/ MonHandshakeFail
    \/ MonLoopTest \/ MonRead \/ MonReadError
    \/ MonStopOk \/ MonStopFail
    \/ SerialEnter \/ SerialStorePressure \/ SerialStorePressTime
    \/ SerialStorePending \/ SerialSend \/ SerialLeave
    \/ \E c \in Clients : ClientEnter(c)
    \/ ClientPush \/ ClientEvict \/ ClientClear \/ ClientLeave
    \/ UiEnter \/ UiRead \/ UiLeave
    \/ ParseLine
    \/ ConnectArduinoOk \/ ConnectArduinoFail \/ DisconnectArduino
    \/ ReaderReadLine \/ ReaderTimeout \/ ReaderEof \/ ReaderReadError

\* A run of one of the binaries.
Spec == (Init \/ InitCore \/ InitMonitor \/ InitParse) /\ [][Next]_vars

---------------------------------------------------------------------------
(* The serial thread alone (no peer ever connects). *)

NextLink ==
    \/ OpenOk \/ OpenFail \/ BackoffDone \/ SettleDone
    \/ HandshakeOk \/ HandshakeFail
    \/ ReadFrame \/ ReadError \/ StopHandshake
    \/ Tick

SpecLink == Init /\ [][NextLink]_vars

\* The serial thread is an OS thread of its own and every call it makes returns:
\* SerialPort::open returns a result, thread::sleep ends, and the writes of the
\* stop byte return (their results are dropped).  Nothing is assumed of the
\* device: a read may block for ever and no failure is ever forced.
FairLink ==
    /\ WF_vars(OpenOk \/ OpenFail)
    /\ WF_vars(BackoffDone)
    /\ WF_vars(StopHandshake)

SpecLinkFair == Init /\ [][NextLink]_vars /\ FairLink

---------------------------------------------------------------------------
(* The serial monitor alone. *)

NextMonitor ==
    \/ CtrlC \/ MonOpenOk \/ MonOpenFail \/ MonSettleDone
    \/ MonHandshakeOk \/ MonHandshakeFail
    \/ MonLoopTest \/ MonRead \/ MonReadError
    \/ MonStopOk \/ MonStopFail

SpecMonitor == InitMonitor /\ [][NextMonitor]_vars

---------------------------------------------------------------------------
(* The serial side of either program that drives the device: the serial    *)
(* thread of the dashboard, or the serial monitor.                         *)

NextSerial == NextLink \/ NextMonitor

SpecSerial == (Init \/ InitMonitor) /\ [][NextSerial]_vars

---------------------------------------------------------------------------
(* The relay with the link already streaming: the state reached by OpenOk, *)
(* SettleDone, HandshakeOk and the read of the StartMessage frame.         *)

InitStreaming ==
    /\ pc = "read"
    /\ buffer = F_START
    /\ pressure_result = Some(from_serial(F_START))
    /\ is_started = TRUE
    /\ prev_index_above = FALSE
    /\ prev_middle_above = FALSE
    /\ start_time = 0
    /\ frames_read = 1
    /\ index_pressure = 0
    /\ middle_pressure = 0
    /\ accuracy_records = <<>>
    /\ connected_clients = 0
    /\ serial_connected = TRUE
    /\ last_press_time = None
    /\ pending_press = None
    /\ InitRelay
    /\ now = 0
    /\ InitSockets
    /\ InitUnityOff
    /\ InitPortStreaming
    /\ InitMonitorOff
    /\ InitReaderOff /\ InitUnlocked

\* One peer connects, responds and leaves.
RelayPeers == {1}

NextRelay ==
    \/ ReadSample
    \/ \E c \in RelayPeers : Accept(c)
    \/ \E c \in RelayPeers : UpgradeOk(c)
    \/ \E c \in RelayPeers : UpgradeFail(c)
    \/ \E c \in RelayPeers : ClientRecvEvent(c)
    \/ \E c \in RelayPeers : ClientSendFail(c)
    \/ \E c \in RelayPeers : ClientResponse(c)
    \/ \E c \in RelayPeers : ClientClose(c)
    \/ Tick

SpecRelay == InitStreaming /\ [][NextRelay]_vars

---------------------------------------------------------------------------
(* The relay after one press was answered: the state SpecRelay reaches by  *)
(* Accept, UpgradeOk, the read of an Index sample of 200, ClientRecvEvent  *)
(* and ClientResponse, all at Instant 0.                                   *)

AnsweredPress == [finger |-> "Index", pressure |-> 200, timestamp_ms |-> 0]

InitAnswered ==
    /\ pc = "read"
    /\ buffer = <<255, 0, 200, 0>>
    /\ pressure_result = Some(from_serial(<<255, 0, 200, 0>>))
    /\ is_started = TRUE
    /\ prev_index_above = TRUE
    /\ prev_middle_above = FALSE
    /\ start_time = 0
    /\ frames_read = 2
    /\ index_pressure = 200
    /\ middle_pressure = 0
    /\ accuracy_records = << [finger |-> "Index", distance |-> 0,
                              timestamp |-> 0, reaction_time_ms |-> 0] >>
    /\ connected_clients = 1
    /\ serial_connected = TRUE
    /\ last_press_time = Some(0)
    /\ pending_press = None
    /\ press_tx_sent = << AnsweredPress >>
    /\ press_rx = [c \in Clients |-> <<>>]
    /\ accept_pc = "accept"
    /\ client = [c \in Clients |-> IF c \in RelayPeers THEN "connected" ELSE "idle"]
    /\ responses_handled = 0
    /\ now = 0
    /\ ws_sent = [c \in Clients |-> IF c \in RelayPeers THEN << AnsweredPress >> ELSE <<>>]
    /\ ws_ended = [c \in Clients |-> FALSE]
    /\ texts_ignored = 0
    /\ last_response = Some([finger_position |-> <<0, 0, 0>>,
                             target_position |-> <<0, 0, 0>>,
                             timestamp_ms    |-> 0])
    /\ InitUnityOff
    /\ InitPortStreaming
    /\ InitMonitorOff
    /\ InitReaderOff /\ InitUnlocked

SpecAnswered == InitAnswered /\ [][NextRelay]_vars

---------------------------------------------------------------------------
(* Fan-out to several clients, in a run of either binary: the dashboard    *)
(* with its link streaming, or the core binary with its server started.    *)
(* Peers connect, are sent what is published and leave; no peer sends      *)
(* text and the clock is not advanced.  Within these bounds no receiver    *)
(* falls a whole channel capacity behind.                                  *)

NextFanout ==
    \/ ReadSample
    \/ \E c \in Clients : Accept(c)
    \/ \E c \in Clients : UpgradeOk(c)
    \/ \E c \in Clients : UpgradeFail(c)
    \/ \E c \in Clients : ClientRecvEvent(c)
    \/ \E c \in Clients : ClientSendFail(c)
    \/ \E c \in Clients : ClientRecvError(c)
    \/ \E c \in Clients : ClientClose(c)
    \/ \E u \in Clients : UnityAccept(u)
    \/ \E u \in Clients : UnityHandshakeOk(u)
    \/ \E u \in Clients : UnityHandshakeFail(u)
    \/ UnitySend
    \/ \E u \in Clients : UnityForward(u)
    \/ \E u \in Clients : UnityForwardFail(u)
    \/ \E u \in Clients : UnityRecvEnd(u)

SpecFanout == (InitStreaming \/ InitCore) /\ [][NextFanout]_vars

---------------------------------------------------------------------------
(* The Unity server of the core binary: peers connect and leave, the       *)
(* application sends and shuts the server down, peers send messages that   *)
(* parse.  Within MaxOutgoing sends no receiver falls OUTGOING_CAPACITY     *)
(* messages behind.                                                        *)

NextUnity ==
    \/ \E u \in Clients : UnityAccept(u)
    \/ UnityShutdown \/ UnityAcceptLoopExit
    \/ \E u \in Clients : UnityHandshakeOk(u)
    \/ \E u \in Clients : UnityHandshakeFail(u)
    \/ UnitySend
    \/ \E u \in Clients : UnityForward(u)
    \/ \E u \in Clients : UnityRecv(u)
    \/ \E u \in Clients : UnityRecvEnd(u)
    \/ UnityDrain

SpecUnity == InitCore /\ [][NextUnity]_vars

\* The messages sent before the state the model starts in, numbered up to 0.
PastMessages(n) == [i \in 1..n |-> CoreMessage(i - n)]

\* The core with its Unity server started and every client connected: client
\* 1 has forwarded nothing and holds a channel that is full or one short of
\* it, the others have kept up.  outgoing_sent lists the sends from here on.
InitUnityLag ==
    /\ InitDashOff /\ InitSockets
    /\ InitPortClosed /\ InitMonitorOff /\ InitReaderOff /\ InitUnlocked
    /\ unity_handle = TRUE
    /\ listening = TRUE
    /\ shutdown_rx = 0
    /\ unity_client = [c \in Clients |-> "connected"]
    /\ outgoing_sent = <<>>
    /\ send_result = None
    /\ \E n \in {OUTGOING_CAPACITY - 1, OUTGOING_CAPACITY} :
          outgoing_rx = [c \in Clients |->
                            IF c = 1 THEN PastMessages(n) ELSE <<>>]
    /\ incoming_rx = <<>>
    /\ inbound_handled = 0
    /\ connected = TRUE
    /\ client_version = None

\* The core goes on sending while the clients forward, or do not, what their
\* receivers yield; no peer closes its connection and no send to a peer fails.
NextUnityLag ==
    \/ UnitySend
    \/ \E u \in Clients : UnityForward(u)
    \/ \E u \in Clients : UnityLagged(u)
    \/ \E u \in Clients : UnityRecv(u)

SpecUnityLag == InitUnityLag /\ [][NextUnityLag]_vars

---------------------------------------------------------------------------
(* A peer whose first text does not parse, in a run of either binary: the  *)
(* peer connects and stays; the server handles a message that parses only  *)
(* after it has received one that does not.                                *)

NextInbound ==
    \/ ReadSample
    \/ \E c \in RelayPeers : Accept(c)
    \/ \E c \in RelayPeers : UpgradeOk(c)
    \/ \E c \in RelayPeers : ClientRecvEvent(c)
    \/ \E c \in RelayPeers : ClientUnparsed(c)
    \/ \E c \in RelayPeers : (texts_ignored > 0 /\ ClientResponse(c))
    \/ \E u \in RelayPeers : UnityAccept(u)
    \/ \E u \in RelayPeers : UnityHandshakeOk(u)
    \/ UnitySend
    \/ \E u \in RelayPeers : UnityForward(u)
    \/ \E u \in RelayPeers : UnityUnparsed(u)
    \/ \E u \in RelayPeers : (texts_ignored > 0 /\ UnityRecv(u))
    \/ UnityDrain

SpecInbound == (InitStreaming \/ InitCore) /\ [][NextInbound]_vars

---------------------------------------------------------------------------
(* The dashboard with a backlog: n presses were published, alternately on  *)
(* Index and Middle and one per Instant, each followed by a release, since *)
(* the read loop was entered at Instant -n; either no peer is connected,   *)
(* or every peer has been connected all along and has read nothing.        *)

PastPresses(n) ==
    [i \in 1..n |->
        [finger       |-> IF i % 2 = 1 THEN "Index" ELSE "Middle",
         pressure     |-> 200,
         timestamp_ms |-> i - 1]]

InitBacklog ==
    /\ pc = "read"
    /\ buffer = <<255, 0, 50, 1>>
    /\ pressure_result = Some(from_serial(<<255, 0, 50, 1>>))
    /\ is_started = TRUE
    /\ prev_index_above = FALSE
    /\ prev_middle_above = FALSE
    /\ frames_read = 1
    /\ index_pressure = 50
    /\ middle_pressure = 50
    /\ accuracy_records = <<>>
    /\ serial_connected = TRUE
    /\ \E n \in {BROADCAST_CAPACITY - 1, BROADCAST_CAPACITY} :
          /\ start_time = 0 - n
          /\ press_tx_sent = PastPresses(n)
          /\ last_press_time = Some(0 - 1)
          /\ pending_press = Some(PastPresses(n)[n])
          /\ \/ /\ client = [c \in Clients |-> "connected"]
                /\ connected_clients = NumClients
                /\ press_rx = [c \in Clients |-> PastPresses(n)]
             \/ /\ client = [c \in Clients |-> "idle"]
                /\ connected_clients = 0
                /\ press_rx = [c \in Clients |-> <<>>]
    /\ accept_pc = "accept"
    /\ responses_handled = 0
    /\ now = 0
    /\ InitSockets
    /\ InitUnityOff
    /\ InitPortStreaming
    /\ InitMonitorOff
    /\ InitReaderOff /\ InitUnlocked

\* The serial thread goes on; a peer may leave but reads nothing.
NextBacklog ==
    \/ ReadSample
    \/ \E c \in Clients : ClientClose(c)
    \/ Tick

SpecBacklog == InitBacklog /\ [][NextBacklog]_vars

\* The serial thread goes on while a peer that is behind takes what its
\* receiver yields: events, and the lag report.  No peer closes its
\* connection and no send to a peer fails.
NextLag ==
    \/ ReadSample
    \/ \E c \in RelayPeers : ClientRecvEvent(c)
    \/ \E c \in RelayPeers : ClientLagged(c)
    \/ Tick

SpecLag == InitBacklog /\ [][NextLag]_vars

---------------------------------------------------------------------------
(* Pressure::from_serial as a function of the four bytes: the link is in   *)
(* its read loop, `buffer` holds the frame just read, Decode applies the   *)
(* decoder to it.                                                          *)

Bytes == 0..255
ProbeBytes == {0, 1, 2, 50, 127, 128, 254, 255}

\* Every sentinel frame with a channel code in `codes`.
DataFrames(codes) ==
    { <<255, hi, lo, c>> : hi \in Bytes, lo \in Bytes, c \in codes }

\* Every frame over the bytes `bs`.
FramesOver(bs) ==
    { <<b0, b1, b2, b3>> : b0 \in bs, b1 \in bs, b2 \in bs, b3 \in bs }

InitDecode ==
    /\ pc = "read"
    /\ buffer \in DataFrames({0, 1}) \cup FramesOver(ProbeBytes)
    /\ pressure_result = None
    /\ is_started = TRUE
    /\ prev_index_above = FALSE
    /\ prev_middle_above = FALSE
    /\ start_time = 0
    /\ frames_read = 1
    /\ index_pressure = 0
    /\ middle_pressure = 0
    /\ accuracy_records = <<>>
    /\ connected_clients = 0
    /\ serial_connected = TRUE
    /\ last_press_time = None
    /\ pending_press = None
    /\ InitRelay
    /\ now = 0
    /\ InitSockets
    /\ InitUnityOff
    /\ InitPortStreaming
    /\ InitMonitorOff
    /\ InitReaderOff /\ InitUnlocked

\* let pressure_result = Pressure::from_serial(buffer);
Decode ==
    /\ pc = "read"
    /\ pressure_result = None
    /\ pressure_result' = Some(from_serial(buffer))
    /\ UNCHANGED <<pc, buffer, is_started, prev_index_above, prev_middle_above,
                   start_time, frames_read, sharedVars, chanVars, relayVars, now>>
    /\ UNCHANGED portVars
    /\ UNCHANGED <<wsVars, unityVars, monVars, ardVars, lockVars>>

NextDecode == Decode

SpecDecode == InitDecode /\ [][NextDecode]_vars

---------------------------------------------------------------------------
(* The accuracy history near its capacity: the state after HISTORY_CAPACITY *)
(* - 1 or HISTORY_CAPACITY responses were processed with no press pending,  *)
(* the link streaming and every peer connected.                             *)

\* The records n such responses leave, oldest first (Instants before 0).
PastRecords(n) ==
    [i \in 1..n |->
        [finger           |-> "Index",
         distance         |-> IF i % 2 = 0 THEN 5 ELSE 0,
         timestamp        |-> i - n - 1,
         reaction_time_ms |-> 0]]

InitHistory ==
    /\ pc = "read"
    /\ buffer = F_START
    /\ pressure_result = Some(from_serial(F_START))
    /\ is_started = TRUE
    /\ prev_index_above = FALSE
    /\ prev_middle_above = FALSE
    /\ start_time = 0
    /\ frames_read = 1
    /\ index_pressure = 0
    /\ middle_pressure = 0
    /\ \E n \in {HISTORY_CAPACITY - 1, HISTORY_CAPACITY} :
          accuracy_records = PastRecords(n)
    /\ connected_clients = NumClients
    /\ serial_connected = TRUE
    /\ last_press_time = None
    /\ pending_press = None
    /\ press_tx_sent = <<>>
    /\ press_rx = [c \in Clients |-> <<>>]
    /\ accept_pc = "accept"
    /\ client = [c \in Clients |-> "connected"]
    /\ responses_handled = 0
    /\ now = 0
    /\ InitSockets
    /\ InitUnityOff
    /\ InitPortStreaming
    /\ InitMonitorOff
    /\ InitReaderOff /\ InitUnlocked

NextHistory ==
    \/ ReadSample
    \/ \E c \in RelayPeers : ClientRecvEvent(c)
    \/ \E c \in RelayPeers : ClientResponse(c)

SpecHistory == InitHistory /\ [][NextHistory]_vars

---------------------------------------------------------------------------
(* The guarded sections statement by statement, the history near its       *)
(* capacity: the serial thread handles samples, a client task handles a    *)
(* response, the UI draws, each under the Mutex.                           *)

NextAtomic ==
    \/ SerialEnter \/ SerialStorePressure \/ SerialStorePressTime
    \/ SerialStorePending \/ SerialSend \/ SerialLeave
    \/ \E c \in RelayPeers : ClientEnter(c)
    \/ ClientPush \/ ClientEvict \/ ClientClear \/ ClientLeave
    \/ UiEnter \/ UiRead \/ UiLeave

SpecAtomic == InitHistory /\ [][NextAtomic]_vars

---------------------------------------------------------------------------
(* A scripted device: the link has just entered its read loop (HandshakeOk *)
(* done) and the device sends the frames of Script in order, while peers   *)
(* connect, respond and leave.                                             *)

Script == << F_ALIGN, F_START, <<255, 0, 50, 0>>, <<255, 0, 200, 0>> >>

InitAwaitingSync ==
    /\ pc = "read"
    /\ buffer = <<0, 0, 0, 0>>
    /\ pressure_result = None
    /\ is_started = FALSE
    /\ prev_index_above = FALSE
    /\ prev_middle_above = FALSE
    /\ start_time = 0
    /\ frames_read = 0
    /\ index_pressure = 0
    /\ middle_pressure = 0
    /\ accuracy_records = <<>>
    /\ connected_clients = 0
    /\ serial_connected = TRUE
    /\ last_press_time = None
    /\ pending_press = None
    /\ InitRelay
    /\ now = 0
    /\ InitSockets
    /\ InitUnityOff
    /\ InitPortStreaming
    /\ InitMonitorOff
    /\ InitReaderOff /\ InitUnlocked

\* read_exact returns the next frame of the script.
ReadScript ==
    /\ frames_read < Len(Script)
    /\ ReadFrom({Script[frames_read + 1]})

NextScript ==
    \/ ReadScript
    \/ \E c \in Clients : Accept(c)
    \/ \E c \in Clients : UpgradeOk(c)
    \/ \E c \in Clients : UpgradeFail(c)
    \/ \E c \in Clients : ClientRecvEvent(c)
    \/ \E c \in Clients : ClientSendFail(c)
    \/ \E c \in Clients : ClientResponse(c)
    \/ \E c \in Clients : ClientClose(c)
    \/ Tick

SpecScript == InitAwaitingSync /\ [][NextScript]_vars

---------------------------------------------------------------------------
(* Properties of the frame decoder *)

IsDecoded == pressure_result # None
Decoded == pressure_result[1]

\* C1: every frame [0xFF, hi, lo, c] with c in {0, 1} decodes to Ok with finger
\* Index for c = 0 and Middle for c = 1 and pressure hi * 256 + lo.
C1_DataFrameRoundTrip ==
    (IsDecoded /\ buffer[1] = 255 /\ buffer[4] \in {0, 1}) =>
        Decoded = Ok([pressure |-> buffer[2] * 256 + buffer[3],
                      finger   |-> IF buffer[4] = 0 THEN "Index" ELSE "Middle"])

\* C1 witness: the largest magnitude on the Middle channel has been decoded.
C1_Witness ==
    /\ IsDecoded
    /\ buffer = <<255, 255, 255, 1>>
    /\ Decoded = Ok([pressure |-> 65535, finger |-> "Middle"])

\* C3: a frame that is neither reserved pattern and whose byte 0 is not 0xFF or
\* whose byte 3 is not 0 or 1 decodes to an error carrying the four input bytes.
C3_DecodeErrorCarriesBytes ==
    (/\ IsDecoded
     /\ buffer \notin {F_ALIGN, F_START}
     /\ (buffer[1] # 255 \/ buffer[4] \notin {0, 1})) =>
        Decoded = Err(buffer)

\* C3 witness: [0xFF, 1, 2, 0xFF] has been decoded to the error holding it.
C3_Witness ==
    /\ IsDecoded
    /\ buffer = <<255, 1, 2, 255>>
    /\ Decoded = Err(<<255, 1, 2, 255>>)

---------------------------------------------------------------------------
(* Properties of the serial thread (SpecLink) *)

\* The step is one iteration of the read loop that obtained a frame.
FrameStep == pc = "read" /\ frames_read' = frames_read + 1

\* The step changes nothing a sample or a press would change.
NothingEmitted ==
    UNCHANGED <<index_pressure, middle_pressure, last_press_time,
                pending_press, press_tx_sent, press_rx>>

\* C2: whatever the link state and whatever was decoded before, [0x01,0,0,0]
\* decodes to the BufferAlignment marker with pressure 0 and [0xFF,0,0,0xFF]
\* to the StartMessage marker with pressure 0.
C2_ControlMarkersAlwaysDecode ==
    IsDecoded =>
        /\ (buffer = F_ALIGN =>
              Decoded = Ok([pressure |-> 0, finger |-> "BufferAlignment"]))
        /\ (buffer = F_START =>
              Decoded = Ok([pressure |-> 0, finger |-> "StartMessage"]))

\* C2 witness: the alignment pattern was read and decoded while Streaming,
\* after a press had already been published.
C2_Witness ==
    /\ is_started
    /\ press_tx_sent # <<>>
    /\ buffer = F_ALIGN
    /\ IsDecoded
    /\ Decoded = Ok([pressure |-> 0, finger |-> "BufferAlignment"])

\* C4: while the link awaits sync, a frame whose decode fails leaves it awaiting
\* sync in the read loop and emits nothing.
C4_DecodeFailureKeepsAwaitingSync ==
    [][(FrameStep /\ ~is_started /\ ~pressure_result'[1].ok) =>
          (/\ ~is_started'
           /\ pc' = "read"
           /\ NothingEmitted)]_vars

\* C4 witness: a frame that failed to decode was read while awaiting sync.
C4_Witness ==
    /\ pc = "read"
    /\ ~is_started
    /\ IsDecoded
    /\ ~Decoded.ok
    /\ buffer = <<255, 0, 1, 255>>

\* C5: on every connection nothing is emitted by a frame read before the
\* StartMessage of that connection: the sync flag is false when the read loop
\* is entered, only a StartMessage frame sets it, and every frame read while
\* it is false changes no pressure, sets no pending press, publishes nothing.
C5_DiscardedUntilStart ==
    [][/\ ((pc # "read" /\ pc' = "read") => ~is_started')
       /\ ((~is_started /\ is_started') => (FrameStep /\ buffer' = F_START))
       /\ ((FrameStep /\ ~is_started) => NothingEmitted)]_vars

\* C5 witness: an above-threshold Index sample was decoded before any
\* StartMessage and left no trace.
C5_Witness ==
    /\ pc = "read"
    /\ ~is_started
    /\ IsDecoded
    /\ Decoded = Ok([pressure |-> 200, finger |-> "Index"])
    /\ index_pressure = 0
    /\ pending_press = None
    /\ press_tx_sent = <<>>

\* What the press detector must do with a forwarded sample of pressure p, given
\* the latch of its channel before and after the step.
EdgeTriggered(finger, p, latch, latch_after) ==
    /\ (press_tx_sent' # press_tx_sent) <=> (p > PRESSURE_THRESHOLD /\ ~latch)
    /\ (press_tx_sent' # press_tx_sent) =>
          press_tx_sent' = Append(press_tx_sent,
                                  [finger |-> finger, pressure |-> p,
                                   timestamp_ms |-> now - start_time])
    /\ latch_after = (p > PRESSURE_THRESHOLD)

\* C7: a forwarded sample publishes a PressEvent iff its pressure is strictly
\* above the threshold and the latch of its channel is false; the latch starts
\* false, is set to (pressure > threshold) by every forwarded sample of its
\* channel and changes at no other step; no other step publishes.
C7_RisingEdgeOnly ==
    [][LET forwarded == FrameStep /\ is_started /\ pressure_result'[1].ok
           p == pressure_result'[1].val
       IN  /\ (forwarded /\ p.finger = "Index") =>
                 /\ EdgeTriggered("Index", p.pressure, prev_index_above,
                                  prev_index_above')
                 /\ prev_middle_above' = prev_middle_above
           /\ (forwarded /\ p.finger = "Middle") =>
                 /\ EdgeTriggered("Middle", p.pressure, prev_middle_above,
                                  prev_middle_above')
                 /\ prev_index_above' = prev_index_above
           /\ ~(forwarded /\ p.finger \in {"Index", "Middle"}) =>
                 /\ press_tx_sent' = press_tx_sent
                 /\ \/ UNCHANGED <<prev_index_above, prev_middle_above>>
                    \/ (pc = "handshake" /\ ~prev_index_above' /\ ~prev_middle_above')
           /\ (pc # "read" /\ pc' = "read") =>
                 (~prev_index_above' /\ ~prev_middle_above')]_vars

\* C7 witness: four frames were read, the last an Index sample above the
\* threshold, the Index latch is set and exactly one PressEvent, on Index, has
\* been published.
C7_Witness ==
    /\ pc = "read"
    /\ frames_read = 4
    /\ is_started
    /\ buffer = <<255, 0, 200, 0>>
    /\ prev_index_above
    /\ index_pressure = 200
    /\ middle_pressure = 0
    /\ Len(press_tx_sent) = 1
    /\ press_tx_sent[1].finger = "Index"

\* C6: from a link awaiting sync, after [0x01,0,0,0] the link still awaits
\* sync; after [0xFF,0,0,0xFF] it is Streaming and no sample was produced;
\* after [0xFF,0,50,0] the shared Index pressure is 50 (below the threshold,
\* so nothing is published).
C6_SyncScenario ==
    /\ (frames_read = 0 => ~is_started)
    /\ (frames_read = 1 =>
          (buffer = F_ALIGN /\ ~is_started /\ index_pressure = 0
           /\ middle_pressure = 0 /\ press_tx_sent = <<>>))
    /\ (frames_read = 2 =>
          (buffer = F_START /\ is_started /\ index_pressure = 0
           /\ middle_pressure = 0 /\ press_tx_sent = <<>>
           /\ pending_press = None /\ last_press_time = None))
    /\ (frames_read = 3 =>
          (buffer = <<255, 0, 50, 0>> /\ is_started /\ index_pressure = 50
           /\ Decoded = Ok([pressure |-> 50, finger |-> "Index"])
           /\ middle_pressure = 0 /\ press_tx_sent = <<>>))

\* C6 witness: the three frames were read and the Index pressure is 50.
C6_Witness ==
    /\ frames_read = 3
    /\ is_started
    /\ buffer = <<255, 0, 50, 0>>
    /\ index_pressure = 50

---------------------------------------------------------------------------
(* Properties of the accuracy history and the pending press *)

\* The step is the processing of one parsed response.
ResponseStep == responses_handled' = responses_handled + 1

\* The step is the publication of one PressEvent.
PublishStep == Len(press_tx_sent') = Len(press_tx_sent) + 1

Last(q) == q[Len(q)]

\* C8: the history never holds more than 1000 records; a response processed
\* when it holds 1000 removes exactly the oldest record and appends the new
\* one at the end, the others keeping their order; below 1000 it only appends.
C8_HistoryBoundedFifo ==
    [][/\ Len(accuracy_records) <= HISTORY_CAPACITY
       /\ Len(accuracy_records') <= HISTORY_CAPACITY
       /\ (ResponseStep /\ Len(accuracy_records) = HISTORY_CAPACITY) =>
             /\ Len(accuracy_records') = HISTORY_CAPACITY
             /\ SubSeq(accuracy_records', 1, HISTORY_CAPACITY - 1)
                   = Tail(accuracy_records)
             /\ Last(accuracy_records').timestamp = now
       /\ (ResponseStep /\ Len(accuracy_records) < HISTORY_CAPACITY) =>
             /\ Len(accuracy_records') = Len(accuracy_records) + 1
             /\ SubSeq(accuracy_records', 1, Len(accuracy_records))
                   = accuracy_records
             /\ Last(accuracy_records').timestamp = now
       /\ ~ResponseStep => accuracy_records' = accuracy_records]_vars

\* C8 witness: a response was processed on a full history: 1000 records are
\* held, the oldest of the 1000 (Instant -1000) is gone and the second oldest
\* is now first.
C8_Witness ==
    /\ responses_handled = 1
    /\ Len(accuracy_records) = HISTORY_CAPACITY
    /\ accuracy_records[1] = PastRecords(HISTORY_CAPACITY)[2]
    /\ Last(accuracy_records).timestamp = 0

\* The presses held in shared state awaiting a response.
PendingPresses == { pending_press[i] : i \in DOMAIN pending_press }

C10_OverwriteNoQueue ==
    [][/\ PublishStep =>
             /\ pending_press' = Some(Last(press_tx_sent'))
             /\ last_press_time' = Some(now)
       /\ ~PublishStep =>
             /\ last_press_time' = last_press_time
             /\ \/ pending_press' = pending_press
                \/ (ResponseStep /\ pending_press' = None)
       /\ (pending_press # None => pending_press = Some(Last(press_tx_sent)))
       /\ ResponseStep =>
             /\ Last(accuracy_records').finger =
                   (IF pending_press = None THEN "Index"
                    ELSE Last(press_tx_sent).finger)
             /\ Last(accuracy_records').reaction_time_ms =
                   (IF last_press_time = None THEN 0
                    ELSE now - last_press_time[1])]_vars

\* C10 witness: an Index press was replaced by a later Index press at another
\* time, then a response was processed: its record carries the later press's
\* reaction time.
C10_Witness ==
    /\ Len(press_tx_sent) = 2
    /\ press_tx_sent[1].finger = "Index"
    /\ press_tx_sent[2].finger = "Index"
    /\ press_tx_sent[1].timestamp_ms = 0
    /\ press_tx_sent[2].timestamp_ms = 1
    /\ responses_handled = 1
    /\ pending_press = None
    /\ Last(accuracy_records).reaction_time_ms = 0
    /\ Last(accuracy_records).timestamp = 1

---------------------------------------------------------------------------
(* Properties of the reaction time and of the processing of a response *)

\* The record a response step appends.
NewRecord == Last(accuracy_records')

C12_NoPendingZeroReaction ==
    [][(ResponseStep /\ pending_press = None) =>
          NewRecord.reaction_time_ms = 0]_vars

\* C13: processing one parsed response appends exactly one record to the
\* history (the records already held keep their order, the oldest leaving
\* only at capacity), leaves the pending press slot empty and changes nothing
\* else of the shared state.
C13_ResponseFrame ==
    [][ResponseStep =>
          /\ Len(accuracy_records') =
                (IF Len(accuracy_records) < HISTORY_CAPACITY
                 THEN Len(accuracy_records) + 1 ELSE HISTORY_CAPACITY)
          /\ SubSeq(accuracy_records', 1, Len(accuracy_records') - 1) =
                (IF Len(accuracy_records) < HISTORY_CAPACITY
                 THEN accuracy_records ELSE Tail(accuracy_records))
          /\ NewRecord.timestamp = now
          /\ pending_press' = None
          /\ UNCHANGED <<index_pressure, middle_pressure, connected_clients,
                         serial_connected, last_press_time>>]_vars

\* C13 witness: a response was processed while a press was pending, an Index
\* pressure of 200 was held and one client was counted: one record is held,
\* the slot is empty, the pressure and the count are as before.
C13_Witness ==
    /\ responses_handled = 1
    /\ Len(accuracy_records) = 1
    /\ pending_press = None
    /\ last_press_time # None
    /\ Len(press_tx_sent) = 1
    /\ index_pressure = 200
    /\ connected_clients = 1
    /\ serial_connected

---------------------------------------------------------------------------
(* Properties of the fan-out to the clients *)

\* a is the end of b.
IsSuffix(a, b) ==
    /\ Len(a) <= Len(b)
    /\ a = SubSeq(b, Len(b) - Len(a) + 1, Len(b))

\* a is b with some elements left out, the others in the same order.
RECURSIVE IsSubseq(_, _)
IsSubseq(a, b) ==
    IF a = <<>> THEN TRUE
    ELSE IF b = <<>> THEN FALSE
    ELSE IF Head(a) = Head(b) THEN IsSubseq(Tail(a), Tail(b))
    ELSE IsSubseq(a, Tail(b))

\* The clients whose handler task is running.
Live == { c \in Clients : client[c] = "connected" }

\* C14: what a connected client has been sent followed by what is queued for
\* it is exactly the run of events published since it subscribed, each once:
\* with two clients connected an event published once is queued once for
\* both and sent once to both, and what another client does (its leaving
\* included) takes nothing from it.  The same holds of the handlers of the
\* Unity server from accept on.
C14_EveryClientGetsEachEventOnce ==
    /\ \A c \in Clients :
          client[c] = "connected" =>
              IsSuffix(ws_sent[c] \o press_rx[c], press_tx_sent)
    /\ \A c, d \in Live :
          \/ IsSuffix(ws_sent[c] \o press_rx[c], ws_sent[d] \o press_rx[d])
          \/ IsSuffix(ws_sent[d] \o press_rx[d], ws_sent[c] \o press_rx[c])
    /\ \A u \in Clients :
          unity_client[u] # "idle" =>
              IsSuffix(ws_sent[u] \o Retained(outgoing_rx[u]), outgoing_sent)

\* C14 witness: two events were published; the first was sent to both clients,
\* client 2 then left, and the second was sent to client 1.
C14_Witness ==
    /\ Len(press_tx_sent) = 2
    /\ client[1] = "connected"
    /\ client[2] = "idle"
    /\ ws_sent[2] = << press_tx_sent[1] >>
    /\ ws_sent[1] = press_tx_sent
    /\ connected_clients = 1

\* C15: the counter of connected clients equals the number of clients whose
\* handshake completed and whose task has not ended, before and after every
\* step: a completed handshake adds one, the end of a task (close frame, end
\* of stream, failed send) takes exactly one, a receive error leaves the task
\* running and counted until its stream reports the end, and the counter is
\* never negative.
C15_CounterMatchesLiveClients ==
    [][/\ connected_clients = Cardinality(Live)
       /\ connected_clients' = Cardinality(Live')
       /\ connected_clients' >= 0
       /\ \A c \in Clients :
             /\ (client[c] = "upgrading" /\ client'[c] = "connected") =>
                   connected_clients' = connected_clients + 1
             /\ (client[c] = "connected" /\ client'[c] = "idle") =>
                   connected_clients' = connected_clients - 1
             /\ (client[c] = "connected" /\ ~ws_ended[c] /\ ws_ended'[c]) =>
                   (client'[c] = "connected" /\ UNCHANGED connected_clients)
       /\ (client' = client => UNCHANGED connected_clients)]_vars

\* C15 witness: client 1 was connected, was sent an event and left; client 2
\* is connected, its stream has reported an error, and it is the one client
\* counted.
C15_Witness ==
    /\ client[1] = "idle"
    /\ ws_sent[1] # <<>>
    /\ client[2] = "connected"
    /\ ws_ended[2]
    /\ connected_clients = 1

\* C18: for every client, the events written to it are events that were
\* published, in the order in which they were published.
C18_DeliveryInPublishOrder ==
    /\ \A c \in Clients :
          accept_pc # "off" => IsSubseq(ws_sent[c], press_tx_sent)
    /\ \A u \in Clients :
          unity_handle => IsSubseq(ws_sent[u], outgoing_sent)

\* C18 witness: an Index press then a Middle press were published and client 1
\* was sent both, in that order.
C18_Witness ==
    /\ Len(press_tx_sent) = 2
    /\ press_tx_sent[1].finger = "Index"
    /\ press_tx_sent[2].finger = "Middle"
    /\ ws_sent[1] = press_tx_sent

---------------------------------------------------------------------------
(* Properties of publishing *)

\* The step is one call of UnityServerHandle::send.
SendStep == Len(outgoing_sent') = Len(outgoing_sent) + 1

\* What a call of UnityServerHandle::send may change besides its result and
\* the queues of the receivers.
ServerUntouched ==
    UNCHANGED <<unity_handle, listening, shutdown_rx, unity_client, ws_sent,
                incoming_rx, connected, client_version>>

\* C16 as claimed: UnityServerHandle::send returns success when there is no
\* live subscriber, and the state is unchanged.
C16_SendWithoutSubscriberIsOk ==
    [][(SendStep /\ Subscribers = {}) =>
          /\ send_result'[1].ok
          /\ UNCHANGED outgoing_rx
          /\ ServerUntouched]_vars

\* C16 amended: UnityServerHandle::send with no live subscriber queues nothing
\* and leaves the server's state unchanged, but it returns
\* Err(UnityError::NotConnected); it returns Ok exactly when at least one
\* receiver is subscribed.
C16_SendWithoutSubscriberIsNotConnected ==
    [][SendStep =>
          /\ (Subscribers = {} =>
                /\ send_result' = Some(Err("NotConnected"))
                /\ UNCHANGED outgoing_rx)
          /\ (Subscribers # {} => send_result' = Some(Ok("unit")))
          /\ ServerUntouched]_vars

\* C16 witness: a message was sent to client 1 and forwarded, client 1 left,
\* and the second send, with no subscriber, returned NotConnected.
C16_Witness ==
    /\ Len(outgoing_sent) = 2
    /\ ws_sent[1] = << outgoing_sent[1] >>
    /\ Subscribers = {}
    /\ \A u \in Clients : outgoing_rx[u] = <<>>
    /\ send_result = Some(Err("NotConnected"))

\* C17: in the read loop every frame can be read, decoded and, if it is a
\* press, published, whatever the clients have or have not consumed: with no
\* client, and with clients holding a full channel of unread events.
C17_PublishNeverWaits ==
    (pc = "read" /\ frames_read < MaxFrames) =>
        \A f \in SampleFrames : ENABLED ReadFrom({f})

\* C17 witness: every client is connected and has read nothing, its queue
\* holds a full channel of events, and one more press has been published
\* after the backlog.
C17_Witness ==
    /\ \A c \in Clients :
          /\ client[c] = "connected"
          /\ ws_sent[c] = <<>>
          /\ Len(Retained(press_rx[c])) = BROADCAST_CAPACITY
    /\ Len(press_tx_sent) = BROADCAST_CAPACITY + 1
    /\ pending_press = Some(Last(press_tx_sent))
    /\ index_pressure = 200

---------------------------------------------------------------------------
(* Properties of inbound text and of the shutdown of the Unity server *)

\* The step is the receipt of a text that does not parse.
UnparsedStep == texts_ignored' = texts_ignored + 1

\* C19: the receipt of a text that does not parse changes nothing: every
\* connection stays as it is (so the messages that follow on it are handled
\* as before), and the history, the pending press, the client count, the
\* client version and the queue of forwarded messages are unchanged.
C19_UnparsedTextIgnored ==
    [][UnparsedStep =>
          /\ UNCHANGED <<client, ws_ended, press_rx, ws_sent>>
          /\ UNCHANGED <<accuracy_records, pending_press, last_press_time,
                         connected_clients, index_pressure, middle_pressure,
                         serial_connected>>
          /\ UNCHANGED <<unity_client, outgoing_rx, incoming_rx, connected,
                         client_version, listening>>]_vars

\* C19 witness: on the connection of client 1 a text that does not parse was
\* received, then a response was processed: the client is connected and
\* counted and the record is in the history.
C19_Witness ==
    /\ texts_ignored = 1
    /\ client[1] = "connected"
    /\ connected_clients = 1
    /\ responses_handled = 1
    /\ Len(accuracy_records) = 1

\* The step accepts a connection on the Unity server.
UnityAcceptStep ==
    \E u \in Clients : unity_client[u] = "idle" /\ unity_client'[u] # "idle"

\* C20 as claimed: once the shutdown signal is raised no connection is
\* accepted.
C20_NoAcceptOnceSignalled ==
    [][(shutdown_rx > 0 \/ ~listening) => ~UnityAcceptStep]_vars

\* C20 amended: the accept loop exits when it takes the shutdown signal and no
\* connection is accepted after it has exited (a connection may still be
\* accepted between the raising of the signal and the exit, the two being
\* raced); the exit changes nothing of the established connections, and a
\* message sent after it is still queued for every handler.
C20_NoAcceptOnceLoopExited ==
    [][/\ (~listening => (~listening' /\ ~UnityAcceptStep))
       /\ ((listening /\ ~listening') =>
             /\ shutdown_rx > 0
             /\ UNCHANGED <<unity_client, outgoing_rx, ws_sent, incoming_rx,
                            connected, client_version>>)
       /\ ((~listening /\ SendStep) =>
             \A u \in Subscribers :
                outgoing_rx'[u] = Append(outgoing_rx[u], Last(outgoing_sent')))]_vars

\* C20 witness: the accept loop has exited; client 1, connected before, has
\* been forwarded two messages and a message of its own has been forwarded
\* to the application.
C20_Witness ==
    /\ ~listening
    /\ unity_handle
    /\ unity_client[1] = "connected"
    /\ connected
    /\ Len(outgoing_sent) = 2
    /\ ws_sent[1] = outgoing_sent
    /\ incoming_rx # <<>>

---------------------------------------------------------------------------
(* Properties of the retry loop of the serial thread *)

\* C21: run_serial_polling never gives up: after a failed open (the backoff is
\* being slept), a failed handshake write or flush (the loop is back at its
\* head) and a read error (the stop byte is being written) the thread comes
\* back to SerialPort::open, and at SerialPort::open the attempt is made; no
\* count of failures is kept, so this holds after any number of them.
C21_RetriesForever ==
    /\ (pc \in {"backoff", "stop"}) ~> (pc = "open")
    /\ (pc = "open") ~> (pc \in {"settle", "backoff"})
    /\ [](pc \in {"open", "backoff", "settle", "handshake", "read", "stop"})

\* C21 witness: frames were read, the read failed, the stop byte was written
\* and the open attempted next failed too: the thread is in its backoff, from
\* which it opens again.
C21_Witness ==
    /\ frames_read > 0
    /\ pc = "backoff"
    /\ ~serial_connected
    /\ is_started

\* The step is a read error: the read loop is left.
ReadErrorStep == pc = "read" /\ pc' # "read"

\* C22: a read error marks the link not connected and abandons the
\* connection (the read loop is left and nothing else of the shared state
\* changes), and the thread does not come to SerialPort::open from there
\* without passing through the backoff: the step that leaves the cleanup after
\* the read error does not arrive at the open.
C22_BackoffAfterReadError ==
    [][/\ (ReadErrorStep =>
             /\ ~serial_connected'
             /\ pc' = "stop"
             /\ UNCHANGED <<index_pressure, middle_pressure, pending_press,
                            last_press_time, press_tx_sent>>)
       /\ ((pc = "stop" /\ pc' # "stop") => pc' = "backoff")]_vars

---------------------------------------------------------------------------
(* Properties of the start and stop bytes (SpecSerial, SpecMonitor) *)

\* The step reads a frame from the port.
SerialReadStep == frames_read' = frames_read + 1

\* The step is a successful SerialPort::open.
SerialOpenStep ==
    \/ (pc = "open" /\ pc' = "settle")
    \/ (mon_pc = "open" /\ mon_pc' = "settle")

\* C23: in the dashboard's serial thread and in the serial monitor, a
\* successful open writes nothing by itself; wherever a frame can be read,
\* and at every read, exactly the one byte 83 has been written on the
\* connection and flushed, and the read writes nothing; a handshake whose
\* write or flush failed leads away from the read loop (to a new open in the
\* dashboard, to the end of the process in the monitor).
C23_StartByteBeforeFirstFrame ==
    [][/\ (SerialOpenStep => (port_tx' = <<>> /\ port_flushed' = 0))
       /\ ((pc = "read" \/ mon_pc \in {"loop", "read"}) =>
              (port_tx = <<START_BYTE>> /\ port_flushed = 1))
       /\ (SerialReadStep =>
              /\ port_tx = <<START_BYTE>>
              /\ port_flushed = 1
              /\ UNCHANGED portVars)
       /\ ((pc = "handshake" /\ pc' # "handshake"
              /\ ~(port_tx' = <<START_BYTE>> /\ port_flushed' = 1)) =>
              pc' = "open")
       /\ ((mon_pc = "handshake" /\ mon_pc' # "handshake"
              /\ ~(port_tx' = <<START_BYTE>> /\ port_flushed' = 1)) =>
              mon_pc' = "panic")]_vars

\* C23 witness: the dashboard's second connection: a frame was read on the
\* first, the port was opened again, and the read loop has been entered anew
\* with the one start byte written and flushed and no frame read yet.
C23_Witness ==
    /\ pc = "read"
    /\ frames_read = 1
    /\ buffer = <<0, 0, 0, 0>>
    /\ port_tx = <<START_BYTE>>
    /\ port_flushed = 1

\* The stop byte has been written on the connection.
StopByteWritten == \E i \in 1..Len(port_tx) : port_tx[i] = STOP_BYTE

\* C24: once the cancellation signal is raised the read loop is left only
\* towards the stop handshake; the process that has exited wrote the stop
\* byte once, after the start byte, and flushed it; and after the stop byte
\* nothing is opened, written or read.
C24_StopByteThenExit ==
    [][/\ ((~running /\ mon_pc \in {"loop", "read"}) =>
              mon_pc' \in {"loop", "read", "stop"})
       /\ (mon_pc = "exit" =>
              (port_tx = <<START_BYTE, STOP_BYTE>> /\ port_flushed = 2))
       /\ (StopByteWritten =>
              (~SerialOpenStep /\ ~SerialReadStep /\ UNCHANGED portVars))]_vars

\* C25: no serial I/O error ends the serial monitor: the process never
\* panics, and its read loop is left only towards the stop handshake and only
\* once the shutdown signal has been raised.
C25_NoSerialErrorAborts ==
    [][/\ mon_pc' # "panic"
       /\ ((mon_pc \in {"loop", "read"} /\ mon_pc' \notin {"loop", "read"}) =>
              (~running /\ mon_pc' = "stop"))]_vars

---------------------------------------------------------------------------
(* Properties of the WebSocket upgrade (SpecFanout) *)

\* C26: a failed WebSocket upgrade abandons its connection and nothing else.
\* In sollertia-ui the peer is dropped, the shared state (the client count
\* included), the channel and the other peers are unchanged, and the accept
\* loop is back at listener.accept() with the peer's slot free, so a later
\* connection is accepted.  In unity.rs the handler returns, the connected
\* flag, the client version, the inbound queue and the other handlers are
\* unchanged, and the accept loop is not touched.
C26_FailedUpgradeAbandonsOnlyThatConnection ==
    [][/\ \A c \in Clients :
             (client[c] = "upgrading" /\ client'[c] = "idle") =>
                /\ UNCHANGED <<sharedVars, chanVars, ws_sent>>
                /\ \A d \in Clients \ {c} : client'[d] = client[d]
                /\ accept_pc' = "accept"
       /\ \A u \in Clients :
             (unity_client[u] = "handshake" /\ unity_client'[u] = "idle") =>
                /\ UNCHANGED <<connected, client_version, incoming_rx,
                               listening, shutdown_rx, ws_sent>>
                /\ \A v \in Clients \ {u} :
                      /\ unity_client'[v] = unity_client[v]
                      /\ outgoing_rx'[v] = outgoing_rx[v]]_vars

\* C26 witness: the state a failed upgrade of client 1 leaves while client 2
\* is connected, counted and has been sent an event: the count is 1, nothing
\* was sent to client 1 and the accept loop can accept client 1 again.
C26_Witness ==
    /\ accept_pc = "accept"
    /\ client[1] = "idle"
    /\ client[2] = "connected"
    /\ ws_sent[2] # <<>>
    /\ ws_sent[1] = <<>>
    /\ connected_clients = 1
    /\ ENABLED Accept(1)

---------------------------------------------------------------------------
(* Properties of the Mutex around SharedState (SpecAtomic) *)

\* The threads that are inside a guarded section.
InSection ==
    (IF serial_cs # "out" THEN {"serial"} ELSE {})
        \cup (IF client_cs # "out" THEN {"client"} ELSE {})
        \cup (IF ui_cs # "out" THEN {"ui"} ELSE {})

\* C27: each guarded section is indivisible for everyone else.  At most one
\* thread is inside a section, and the Mutex is held exactly then.  What the
\* UI draws is the state with no writer inside a section, with at most
\* HISTORY_CAPACITY records.  Whenever no client task is inside, at most
\* HISTORY_CAPACITY records are held; when a client task leaves, the record
\* has been appended, the oldest evicted and the pending press cleared; when
\* the serial thread leaves after a rising edge, the pressure, the press time,
\* the pending press and the published event are all those of the sample.
C27_SectionsAreAtomic ==
    /\ Cardinality(InSection) <= 1
    /\ state_locked = (InSection # {})
    /\ (snapshot # None =>
          /\ serial_cs = "out" /\ client_cs = "out"
          /\ snapshot[1] = Shared
          /\ Len(snapshot[1].accuracy_records) <= HISTORY_CAPACITY)
    /\ (client_cs = "out" => Len(accuracy_records) <= HISTORY_CAPACITY)
    /\ (client_cs = "leave" =>
          /\ Len(accuracy_records) <= HISTORY_CAPACITY
          /\ pending_press = None
          /\ Last(accuracy_records).distance =
                calculate_distance(last_response[1].finger_position,
                                   last_response[1].target_position))
    /\ ((serial_cs = "latch" /\ RisingEdge(Above(Sample.pressure), SampleLatch)) =>
          /\ pending_press = Some(PressEvent(Sample.finger, Sample.pressure))
          /\ last_press_time = Some(now)
          /\ Last(press_tx_sent) = pending_press[1]
          /\ (IF Sample.finger = "Index" THEN index_pressure
              ELSE middle_pressure) = Sample.pressure)

\* C27 witness: the intermediate state exists and nobody can look at it: a
\* client task is between its push and its pop with HISTORY_CAPACITY + 1
\* records held and the press it answers still pending, it holds the Mutex,
\* and neither the UI nor the serial thread is inside a section.
C27_Witness ==
    /\ client_cs = "evict"
    /\ Len(accuracy_records) = HISTORY_CAPACITY + 1
    /\ pending_press # None
    /\ Last(accuracy_records).finger = pending_press[1].finger
    /\ state_locked
    /\ ui_cs = "out"
    /\ serial_cs = "out"
    /\ snapshot = None

\* C28: a client whose WebSocket upgrade is pending holds up nobody else:
\* every other peer that is connecting can be accepted, and every connected
\* client with an event queued can be sent it.
C28_PendingUpgradeSuspendsOnlyItsClient ==
    \A c \in Clients :
        (accept_pc # "off" /\ client[c] = "upgrading") =>
            \A d \in Clients \ {c} :
                /\ (client[d] = "idle" => ENABLED Accept(d))
                /\ ((client[d] = "connected" /\ press_rx[d] # <<>>) =>
                       ENABLED ClientRecvEvent(d))

\* A field that is a decimal numeral: one digit or more and nothing else.
IsDecimal(s) == s # <<>> /\ \A i \in 1..Len(s) : IsDigit(s[i])

\* A field that is a numeral by no reading: neither a decimal numeral nor one
\* with a plus sign before it.
NotNumeric(s) == ~IsDecimal(s) /\ ~(Len(s) > 1 /\ s[1] = "+" /\ IsDecimal(Tail(s)))

\* A raw field within u16, a timestamp field within u64.
RawInRange(s) == Len(Canonical(s)) <= 5 /\ NumeralValue(Canonical(s)) <= U16_MAX

TimestampInRange(s) == NumeralLeq(Canonical(s), U64_MAX_NUMERAL)

\* The line of test_parse_simple_format.
SIMPLE_LINE == <<"I", ",", "5", "1", "2", ",", "1", "0", "0", "0">>

\* C29: on a line "<I|M>,<raw>,<timestamp>" whose raw and timestamp are
\* decimal numerals (within u16 and u64) the parser returns a Sensor reading
\* with finger Index for I and Middle for M, pressure raw/1023 and
\* timestamp_ms the value of the third field; I,512,1000 gives Index, a
\* pressure within 0.01 of 0.5, and 1000; with any other first field, or a
\* raw or timestamp field that is not numeric, the result is an error.
C29_LegacyLineParsed ==
    \A a \in ChannelFields, b \in RawFields, c \in TimestampFields :
        (line_buf = Csv(a, b, c) /\ parse_result # None) =>
            /\ ( /\ a \in {<<"I">>, <<"M">>}
                 /\ IsDecimal(b) /\ RawInRange(b)
                 /\ IsDecimal(c) /\ TimestampInRange(c) )
                   => /\ parse_result[1].ok
                      /\ parse_result[1].val.type = "sensor"
                      /\ parse_result[1].val.finger
                            = (IF a = <<"I">> THEN "index" ELSE "middle")
                      /\ parse_result[1].val.pressure
                            = [num |-> NumeralValue(Canonical(b)),
                               den |-> 1023]
                      /\ parse_result[1].val.timestamp_ms = Canonical(c)
                      /\ arduino_rx = <<parse_result[1].val>>
            /\ (a \notin {<<"I">>, <<"M">>} \/ NotNumeric(b) \/ NotNumeric(c))
                   => /\ ~parse_result[1].ok
                      /\ arduino_rx = <<>>
            /\ line_buf = SIMPLE_LINE
                   => /\ parse_result[1].ok
                      /\ parse_result[1].val.finger = "index"
                      /\ parse_result[1].val.timestamp_ms
                            = <<"1", "0", "0", "0">>
                      /\ LET p == parse_result[1].val.pressure
                         IN  /\ 100 * (2 * p.num - p.den) < 2 * p.den
                             /\ 100 * (p.den - 2 * p.num) < 2 * p.den

\* C29 witness: the line I,512,1000 was parsed into a Sensor reading, which
\* is in the channel.
C29_Witness ==
    /\ line_buf = SIMPLE_LINE
    /\ parse_result # None
    /\ parse_result[1].ok
    /\ parse_result[1].val.type = "sensor"
    /\ Len(arduino_rx) = 1

\* C30: on a line "READY <version>" the parser returns a Ready message whose
\* firmware_version is exactly the text after "READY ", whatever the version
\* is.
C30_ReadyCarriesVersion ==
    \A v \in VersionFields :
        (line_buf = READY_SPACE \o v /\ parse_result # None) =>
            /\ parse_result[1].ok
            /\ parse_result[1].val = [type |-> "ready", firmware_version |-> v]

\* A control frame: one that decodes to StartMessage or BufferAlignment.
IsControl(r) == r.ok /\ r.val.finger \in {"StartMessage", "BufferAlignment"}

\* C31: while the link is Streaming (the start frame was seen), reading a
\* StartMessage or BufferAlignment frame changes no shared pressure, neither
\* press latch, not the pending press nor the time of the last press,
\* publishes no PressEvent, and leaves the link Streaming on the same
\* connection.
C31_ControlFramesNotForwarded ==
    [][(FrameStep /\ is_started /\ IsControl(pressure_result'[1])) =>
          /\ UNCHANGED <<index_pressure, middle_pressure>>
          /\ UNCHANGED <<prev_index_above, prev_middle_above>>
          /\ UNCHANGED <<pending_press, last_press_time>>
          /\ UNCHANGED <<press_tx_sent, press_rx>>
          /\ UNCHANGED <<is_started, pc, serial_connected, portVars>>]_vars

\* C31 witness: a BufferAlignment frame was read while Streaming, after an
\* Index press that is still latched, stored and pending.
C31_Witness ==
    /\ pc = "read"
    /\ is_started
    /\ buffer = F_ALIGN
    /\ IsControl(pressure_result[1])
    /\ prev_index_above
    /\ index_pressure = 200
    /\ pending_press # None
    /\ Len(press_tx_sent) = 1

\* C32: while the link is Streaming, reading a frame whose decode fails
\* changes nothing but the buffer: the link stays Streaming on the same
\* connection, the shared pressures, the latches, the pending press and the
\* published events are unchanged; and a data frame read right after a failed
\* one is processed as any other: its pressure is stored, its channel's latch
\* follows it, and it publishes iff it is a rising edge.
C32_DecodeFailureDropped ==
    [][/\ (FrameStep /\ is_started /\ ~pressure_result'[1].ok) =>
             /\ UNCHANGED <<index_pressure, middle_pressure>>
             /\ UNCHANGED <<prev_index_above, prev_middle_above>>
             /\ UNCHANGED <<pending_press, last_press_time>>
             /\ UNCHANGED <<press_tx_sent, press_rx>>
             /\ UNCHANGED <<is_started, pc, serial_connected, portVars>>
       /\ ( /\ FrameStep /\ is_started
            /\ pressure_result # None /\ ~pressure_result[1].ok
            /\ pressure_result'[1].ok ) =>
             LET p == pressure_result'[1].val
             IN  /\ p.finger = "Index" =>
                       /\ index_pressure' = p.pressure
                       /\ EdgeTriggered("Index", p.pressure, prev_index_above,
                                        prev_index_above')
                       /\ UNCHANGED <<middle_pressure, prev_middle_above>>
                 /\ p.finger = "Middle" =>
                       /\ middle_pressure' = p.pressure
                       /\ EdgeTriggered("Middle", p.pressure,
                                        prev_middle_above, prev_middle_above')
                       /\ UNCHANGED <<index_pressure, prev_index_above>>
                 /\ (press_tx_sent' # press_tx_sent) =>
                       pending_press' = Some(Last(press_tx_sent'))]_vars

\* C32 witness: a frame without the sentinel was read and failed to decode
\* while Streaming, after an Index press that stays latched, stored and
\* pending; a further frame can still be read.
C32_Witness ==
    /\ pc = "read"
    /\ is_started
    /\ buffer = <<0, 0, 200, 0>>
    /\ ~pressure_result[1].ok
    /\ prev_index_above
    /\ index_pressure = 200
    /\ pending_press # None
    /\ serial_connected
    /\ frames_read < MaxFrames

\* C33: the record appended when a response is processed carries the channel
\* of the press in the pending slot, and that press is the PressEvent
\* published last; when the slot is empty the record carries Index.
C33_RecordChannelIsPendingChannel ==
    [][ResponseStep =>
          /\ pending_press # None =>
                /\ NewRecord.finger = pending_press[1].finger
                /\ pending_press[1] = Last(press_tx_sent)
          /\ pending_press = None => NewRecord.finger = "Index"]_vars

\* C33 witness: an Index press and then a Middle press were published, one
\* response was processed and its record carries Middle.
C33_Witness ==
    /\ Len(press_tx_sent) = 2
    /\ press_tx_sent[1].finger = "Index"
    /\ press_tx_sent[2].finger = "Middle"
    /\ responses_handled = 1
    /\ accuracy_records # <<>>
    /\ Last(accuracy_records).finger = "Middle"
    /\ pending_press = None

\* The handlers of unity.rs whose handshake completed and that have not ended.
UnityLive == { u \in Clients : unity_client[u] = "connected" }

\* C34: in unity.rs the shared `connected` flag is true exactly when at least
\* one connection is live, whatever the number of clients and the order of
\* their connects and disconnects.
C34_ConnectedIffSomeClientLive ==
    connected <=> (UnityLive # {})

\* The messages of the lines that parse, in the order of the lines.
RECURSIVE MessagesOf(_)
MessagesOf(lines) ==
    IF lines = <<>> THEN <<>>
    ELSE IF parse_arduino_message(Head(lines)).ok
    THEN <<parse_arduino_message(Head(lines)).val>> \o MessagesOf(Tail(lines))
    ELSE MessagesOf(Tail(lines))

\* The lines the thread has read and dealt with: all those read, but for the
\* one it is about to parse.
LinesHandled ==
    IF reader_pc = "parse" THEN SubSeq(lines_read, 1, Len(lines_read) - 1)
    ELSE lines_read

\* The thread takes its step on the line it holds.
ParseStep == reader_pc = "parse" /\ reader_pc' # "parse"

\* C35: in the reader thread a line that does not parse is dropped and the
\* thread goes on reading: the step that finds it malformed sends nothing and
\* returns to read_line; and while the receiver lives, what has been sent on
\* the channel is exactly the messages of the well-formed lines read so far,
\* in the order they were read, whatever malformed lines came between them.
C35_MalformedLineDropped ==
    /\ [](arduino_handle => arduino_rx = MessagesOf(LinesHandled))
    /\ [][(ParseStep /\ ~parse_result'[1].ok) =>
             /\ reader_pc' = "read"
             /\ arduino_rx' = arduino_rx
             /\ UNCHANGED <<lines_read, arduino_handle, in_flight>>]_vars

\* C35 witness: the first line read was malformed (unknown channel) and was
\* dropped; the two well-formed lines read after it were delivered, in order,
\* and the thread is reading.
C35_Witness ==
    /\ reader_pc = "read"
    /\ arduino_handle
    /\ Len(lines_read) = 3
    /\ lines_read[1] = <<"X", ",", "1", ",", "2">>
    /\ Len(arduino_rx) = 2
    /\ arduino_rx[1].type = "sensor" /\ arduino_rx[1].finger = "index"
    /\ arduino_rx[2].type = "sensor" /\ arduino_rx[2].finger = "middle"

\* C36: a read failure of the reader thread is recovered by a retry: when
\* the thread has stopped on a read error or the end of the stream (the app
\* still holding the handle), reading starts again by itself, so that lines
\* the device sends afterwards are read and delivered.
C36_ReadFailureRecovered ==
    (reader_pc = "exit" /\ arduino_handle) ~> (reader_pc = "read")

\* The read loop of a connection is entered.
EnterReadLoop == pc = "handshake" /\ pc' = "read"

\* C37: every time the read loop is entered, on the first connection and on
\* every reconnection, the sync flag and both latches are false; while the
\* flag is false no frame is forwarded (pressures, latches, pending press and
\* published events are unchanged) and only a StartMessage sets it; and once
\* it is set, a sample above the threshold on a channel whose latch is false
\* publishes a PressEvent, also when the pressure left in shared state by the
\* previous connection on that channel is above the threshold.
C37_ReconnectResetsSyncAndLatches ==
    [][/\ EnterReadLoop =>
             (~is_started' /\ ~prev_index_above' /\ ~prev_middle_above')
       /\ (FrameStep /\ ~is_started) =>
             /\ UNCHANGED <<index_pressure, middle_pressure>>
             /\ UNCHANGED <<prev_index_above, prev_middle_above>>
             /\ UNCHANGED <<pending_press, last_press_time, press_tx_sent>>
             /\ is_started' <=> (buffer' = F_START)
       /\ (FrameStep /\ is_started /\ pressure_result'[1].ok) =>
             LET p == pressure_result'[1].val
             IN  /\ ( /\ p.finger = "Index"
                      /\ p.pressure > PRESSURE_THRESHOLD
                      /\ ~prev_index_above ) =>
                        /\ Len(press_tx_sent') = Len(press_tx_sent) + 1
                        /\ Last(press_tx_sent').finger = "Index"
                        /\ prev_index_above'
                 /\ ( /\ p.finger = "Middle"
                      /\ p.pressure > PRESSURE_THRESHOLD
                      /\ ~prev_middle_above ) =>
                        /\ Len(press_tx_sent') = Len(press_tx_sent) + 1
                        /\ Last(press_tx_sent').finger = "Middle"
                        /\ prev_middle_above']_vars

\* C37 witness: a second connection is Streaming (its own StartMessage was
\* read) with the Index latch false, while the last Index sample of the
\* previous connection, still in shared state, was above the threshold and
\* its press was published; a further frame can be read.
C37_Witness ==
    /\ pc = "read"
    /\ is_started
    /\ buffer = F_START
    /\ ~prev_index_above
    /\ index_pressure > PRESSURE_THRESHOLD
    /\ Len(press_tx_sent) = 1
    /\ press_tx_sent[1].finger = "Index"
    /\ frames_read < MaxFrames

\* The receiver of client c stands at a lag report: more than
\* BROADCAST_CAPACITY events were published since it last took one.
Behind(c) ==
    client[c] = "connected" /\ press_rx[c] # <<>> /\ Head(press_rx[c]) = LAGGED

\* The recv() of client c's task yields the lag report.
LagStep(c) == Behind(c) /\ press_rx'[c] = Tail(press_rx[c])

\* C38: a client that has fallen more than 16 published events behind has
\* lost the oldest of them and holds the 16 newest; no step taken while it is
\* behind disconnects it or changes connected_clients (no peer closing on
\* its own); the step in which its task is told of the lag sends nothing and
\* keeps what is retained; its task can take that step, and after it can
\* take the oldest retained event; and what a connected client holds always
\* ends the sequence of published events.
C38_LaggingClientStaysConnected ==
    /\ [](\A c \in RelayPeers :
             /\ Behind(c) =>
                   /\ Len(Retained(press_rx[c])) = BROADCAST_CAPACITY
                   /\ Len(ws_sent[c]) + BROADCAST_CAPACITY < Len(press_tx_sent)
                   /\ ENABLED ClientLagged(c)
             /\ (client[c] = "connected" /\ press_rx[c] # <<>> /\ ~Behind(c))
                   => ENABLED ClientRecvEvent(c)
             /\ client[c] = "connected" =>
                   IsSuffix(Retained(press_rx[c]), press_tx_sent))
    /\ [][\A c \in RelayPeers :
             /\ Behind(c) =>
                   /\ client'[c] = "connected"
                   /\ connected_clients' = connected_clients
             /\ LagStep(c) =>
                   /\ ws_sent' = ws_sent
                   /\ ws_ended' = ws_ended
                   /\ Retained(press_rx'[c]) = Retained(press_rx[c])
                   /\ ~Behind(c)']_vars

\* C38 witness: more than 16 events were published while client 1 took
\* none; it was told of the lag, lost the first event and has since been sent
\* the second, the oldest one retained; it is connected and counted.
C38_Witness ==
    /\ client[1] = "connected"
    /\ connected_clients = NumClients
    /\ Len(press_tx_sent) = BROADCAST_CAPACITY + 1
    /\ ws_sent[1] = <<press_tx_sent[2]>>
    /\ Len(press_rx[1]) = BROADCAST_CAPACITY - 1

\* The receiver of handler u stands at a lag report: more than
\* OUTGOING_CAPACITY messages were sent since it last took one.
UnityBehind(u) ==
    /\ unity_client[u] = "connected"
    /\ outgoing_rx[u] # <<>>
    /\ Head(outgoing_rx[u]) = LAGGED

\* The recv() of handler u's send_task yields what stands first in its queue.
UnityTakeStep(u) ==
    /\ unity_client[u] = "connected"
    /\ outgoing_rx[u] # <<>>
    /\ outgoing_sent' = outgoing_sent
    /\ outgoing_rx'[u] # outgoing_rx[u]

\* C39: in unity.rs a handler whose receiver has lagged beyond the 100
\* retained messages cannot forward; the step in which its send_task takes the
\* lag report ends the handler: the client is dropped with its receiver,
\* nothing is forwarded to it, shared state has connected = false and
\* client_version = None; and a dropped client's inbound messages are not read
\* and nothing more is forwarded to it.
C39_LagEndsUnityHandler ==
    /\ [](\A u \in Clients :
             /\ UnityBehind(u) =>
                   /\ Len(Retained(outgoing_rx[u])) = OUTGOING_CAPACITY
                   /\ ENABLED UnityLagged(u)
                   /\ ~ENABLED UnityForward(u)
             /\ unity_client[u] = "idle" =>
                   /\ ~ENABLED UnityRecv(u)
                   /\ ~ENABLED UnityForward(u)
                   /\ outgoing_rx[u] = <<>>)
    /\ [][\A u \in Clients :
             (UnityBehind(u) /\ UnityTakeStep(u)) =>
                /\ unity_client'[u] = "idle"
                /\ outgoing_rx'[u] = <<>>
                /\ ws_sent' = ws_sent
                /\ ~connected'
                /\ client_version' = None
                /\ UNCHANGED <<incoming_rx, inbound_handled>>]_vars

\* C39 witness: client 1 reported its version, forwarded nothing while more
\* than 100 messages were sent, and was dropped on the lag report: it is
\* idle, was sent nothing, connected is false and the version is cleared.
C39_Witness ==
    /\ unity_client[1] = "idle"
    /\ ws_sent[1] = <<>>
    /\ outgoing_sent # <<>>
    /\ incoming_rx # <<>>
    /\ incoming_rx[1].type = "ready"
    /\ ~connected
    /\ client_version = None

=============================================================================
